---- MODULE Spec2Model ----
(***************************************************************************)
(* A model of the hermitdroid control loop: the guardrail executor         *)
(* (src/src/action/mod.rs), the fallback manager (src/src/fallback.rs),    *)
(* Brain::think (src/src/brain/mod.rs), the stuck detector                 *)
(* (src/src/stuck.rs), and the two loops that drive them, run_oneshot      *)
(* (src/src/oneshot.rs) and the heartbeat tick (src/src/main.rs); then     *)
(* Brain::parse_response with its JSON recovery chain, and the perception  *)
(* pass: perceive_screen (src/src/sanitizer.rs) and poll_screen_adb_full   *)
(* (src/src/perception/mod.rs).                                            *)
(*                                                                         *)
(* Strings whose contents the code inspects (classification, package name, *)
(* restricted-app entries) are sequences of one-character strings, so that *)
(* to_uppercase and contains are computed, not assumed.  Strings the code  *)
(* only compares or copies (action types, provider keys, result texts) are *)
(* TLA+ strings.                                                           *)
(***************************************************************************)
EXTENDS Integers, Sequences, FiniteSets, TLC

\* ------------------------------------------------------------------ bounds

\* execute() calls made by the control loop in one behaviour
MaxExecute == 1
\* confirm() calls made by the confirmation handlers in one behaviour
MaxConfirm == 2

\* report_failure() calls in one behaviour
MaxFailures == 5
\* think() calls in one behaviour
MaxThink == 3
\* fragments an error text handed to classify is made of
MaxFragments == 2
\* StuckDetector calls (check_screen, record_action, reset) in one behaviour
MaxStuckCalls == 7
\* max_steps of a one-shot run, and the ticks of the heartbeat loop followed
MaxSteps == 3
\* notifications and user commands pushed to the perception queues
MaxPushes == 2
\* check_screen calls on one detector when nothing else is called on it
MaxScreenChecks == 13
\* seconds the clock runs for
MaxTime == 2
\* the largest fallback_cooldown_secs configured
MaxCooldown == 2

\* ----------------------------------------------------------------- strings

LowerToUpper ==
  [a |-> "A", b |-> "B", c |-> "C", d |-> "D", e |-> "E", f |-> "F", g |-> "G",
   h |-> "H", i |-> "I", j |-> "J", k |-> "K", l |-> "L", m |-> "M", n |-> "N",
   o |-> "O", p |-> "P", q |-> "Q", r |-> "R", s |-> "S", t |-> "T", u |-> "U",
   v |-> "V", w |-> "W", x |-> "X", y |-> "Y", z |-> "Z"]

\* str::to_uppercase on the ASCII strings of the model
to_uppercase(s) ==
  [i \in 1..Len(s) |-> IF s[i] \in DOMAIN LowerToUpper THEN LowerToUpper[s[i]] ELSE s[i]]

UpperToLower ==
  [A |-> "a", B |-> "b", C |-> "c", D |-> "d", E |-> "e", F |-> "f", G |-> "g",
   H |-> "h", I |-> "i", J |-> "j", K |-> "k", L |-> "l", M |-> "m", N |-> "n",
   O |-> "o", P |-> "p", Q |-> "q", R |-> "r", S |-> "s", T |-> "t", U |-> "u",
   V |-> "v", W |-> "w", X |-> "x", Y |-> "y", Z |-> "z"]

\* str::to_lowercase on the ASCII strings of the model
to_lowercase(s) ==
  [i \in 1..Len(s) |-> IF s[i] \in DOMAIN UpperToLower THEN UpperToLower[s[i]] ELSE s[i]]

\* str::contains: sub occurs in s as a contiguous substring
contains(s, sub) ==
  \E i \in 0..(Len(s) - Len(sub)) : SubSeq(s, i + 1, i + Len(sub)) = sub

GREEN  == <<"G", "R", "E", "E", "N">>
YELLOW == <<"Y", "E", "L", "L", "O", "W">>
RED    == <<"R", "E", "D">>
RED_AUTO      == <<"R", "E", "D", "-", "A", "U", "T", "O">>
RED_CONFIRMED == <<"R", "E", "D", "-", "C", "O", "N", "F", "I", "R", "M", "E", "D">>

\* -------------------------------------------------------------- the inputs

\* params.package is absent (or not a JSON string)
NoPackage == <<"-">>

\* classification strings a model response can carry
Classifications ==
  { <<"g", "r", "e", "e", "n">>, YELLOW, <<"R", "e", "d">>, <<"B", "L", "U", "E">> }

\* package names: "abk" holds the entry "bk" in its middle, "kb" holds none
PackageNames == { <<"a", "b", "k">>, <<"k", "b">> }

\* launch_app goes to adb, wait is local, share is an unrecognized type
ActionTypes == { "launch_app", "wait", "share" }

AgentActions ==
  [action_type : ActionTypes,
   package : PackageNames \cup {NoPackage},
   classification : Classifications]

\* confirmation handlers running beside the control loop
Handlers == { "h1", "h2" }

\* ------------------------------------------------------------------- state

VARIABLES
  dry_run,           \* ActionExecutor.dry_run
  restricted_apps,   \* ActionExecutor.restricted_apps
  auto_confirm_red,  \* ActionExecutor.auto_confirm_red
  pending,           \* ActionExecutor.pending: Vec<PendingConfirmation>
  outgoing,          \* ActionExecutor.outgoing: Vec<DeviceAction>
  action_log,        \* ActionExecutor.action_log: Vec<ActionLogEntry>
  adb_calls,         \* the do_action dispatches that reached adb(): <<id, type>>
  next_id,           \* the next fresh action id
  exec_ret,          \* what the last execute() returned
  handler,           \* per confirmation handler: where it is inside confirm()
  confirm_ret,       \* per confirmation handler: what its last confirm() returned
  n_execute,         \* execute() calls so far
  n_confirm,         \* confirm() calls so far
  fb_config,         \* FallbackManager.config: the flags and the cooldown
  cooldowns,         \* FallbackManager.cooldowns: Vec<(String, Instant)>
  current_index,     \* FallbackManager.current_index (-1 = primary)
  total_fallbacks,   \* FallbackManager.total_fallbacks
  clock,             \* Instant::now(), in seconds
  fb_ret,            \* what the last FallbackManager call returned
  cooled_at,         \* per provider key: when it was last put on cooldown (-1: never)
  n_failures,        \* report_failure() calls so far
  think_calls,       \* the provider calls of the last think(): <<[provider, ok]>>
  think_ret,         \* what the last think() returned: "Ok" or "Err"
  n_think,           \* think() calls so far
  cl_text,           \* the error text handed to ErrorClass::classify
  cl_class,          \* what classify returned for it
  cl_fallover,       \* what should_fallback returned for that class: << >> or <<b>>
  stuck,             \* the StuckDetector: its config and its fields
  stuck_ret,         \* the StuckStatus its last call returned
  stuck_call,        \* its last call: [op, hash, fingerprint]
  fresh_run,         \* since new/reset only check_screen calls, all of one hash: [n, hash]
  rec_log,           \* the fingerprints of the last repetition_window record_action calls
  detections,        \* calls since new/reset that returned a status other than Ok
  observed,          \* the hash the last check_screen since new/reset observed: << >> or <<h>>
  calm,              \* no check_screen has observed a new hash since the first detection
  n_stuck_calls,     \* StuckDetector calls so far
  mode,              \* the loop running: "oneshot" (run_oneshot) or "daemon" (heartbeat)
  bridge_mode,       \* config.perception.bridge_mode
  step,              \* run_oneshot: step; heartbeat loop: tick_count
  pc,                \* where the loop is: "perceive", "think", "tick", "execute", "finished"
  response,          \* response.actions of the last model response
  idx,               \* the action of response the for loop is at (from 1)
  dispatched,        \* the actions of response handed to executor.execute, by index
  batch_failed,      \* an execute() of this batch returned Err
  n_model_calls,     \* brain.think() calls so far
  consecutive_ui_actions,  \* heartbeat_tick: consecutive_ui_actions
  tick_screen_hash,  \* heartbeat_tick: last_screen_hash
  user_prompt_suffix,  \* run_oneshot: user_prompt_suffix, << >> or <<hint>>
  final_user_prompt,   \* run_oneshot: what follows user_prompt in the last prompt sent
  running,           \* the shared running flag, Arc<Mutex<bool>>
  notifications,     \* Perception.notifications: the notifications queued, by id
  user_commands,     \* Perception.user_commands: the commands queued, by id
  delivered,         \* the ids that were in the prompt of a model call that succeeded
  n_pushed,          \* notifications and commands pushed so far
  max_steps_arg,     \* run_oneshot: the max_steps it is called with
  hints_due,         \* the hints the detector returned since the last prompt was sent
  raw,               \* the raw model text handed to parse_response
  parsed,            \* what parse_response made of it
  perceived          \* the perception pass made: its inputs and what it returned

exec_vars ==
  << dry_run, restricted_apps, auto_confirm_red, pending, outgoing, action_log,
     adb_calls, next_id, exec_ret, handler, confirm_ret, n_execute, n_confirm >>

fb_vars ==
  << fb_config, cooldowns, current_index, total_fallbacks, clock, fb_ret, cooled_at,
     n_failures >>

brain_vars == << think_calls, think_ret, n_think >>

cl_vars == << cl_text, cl_class, cl_fallover >>

stuck_vars ==
  << stuck, stuck_ret, stuck_call, fresh_run, rec_log, detections, observed,
     calm, n_stuck_calls >>

loop_vars ==
  << mode, bridge_mode, step, pc, response, idx, dispatched, batch_failed,
     n_model_calls, consecutive_ui_actions, tick_screen_hash,
     user_prompt_suffix, final_user_prompt, hints_due, max_steps_arg,
     running, notifications, user_commands, delivered, n_pushed >>

\* what the heartbeat loop shares with the server and the perception bridge
daemon_io == << running, notifications, user_commands, delivered, n_pushed >>

parse_vars == << raw, parsed, perceived >>

vars == << exec_vars, fb_vars, brain_vars, cl_vars, stuck_vars, loop_vars, parse_vars >>

\* what a step of one component leaves alone
beside_exec == << fb_vars, brain_vars, cl_vars, stuck_vars, loop_vars, parse_vars >>
beside_fb == << exec_vars, brain_vars, cl_vars, stuck_vars, loop_vars, parse_vars >>
beside_brain == << exec_vars, cl_vars, stuck_vars, loop_vars, parse_vars >>
beside_cl == << exec_vars, fb_vars, brain_vars, stuck_vars, loop_vars, parse_vars >>
beside_stuck == << exec_vars, fb_vars, brain_vars, cl_vars, loop_vars, parse_vars >>
beside_loop == << exec_vars, fb_vars, brain_vars, cl_vars, parse_vars >>
beside_parse == << exec_vars, fb_vars, brain_vars, cl_vars, stuck_vars, loop_vars >>

\* Result values: Ok(text) and Err(text)
Ok(text)  == [ok |-> TRUE, val |-> text, id |-> -1]
Err(text) == [ok |-> FALSE, val |-> text, id |-> -1]
\* Ok(format!("PENDING:{}", id))
PendingToken(id) == [ok |-> TRUE, val |-> "PENDING", id |-> id]
NoReturn == [ok |-> TRUE, val |-> "none", id |-> -1]

Idle == [pc |-> "idle", id |-> -1, action |-> NoReturn]

\* -------------------------------------------------------- ActionExecutor

\* the restricted_apps.iter().any(|a| pkg.contains(a)) test on params.package
targets_restricted(action) ==
  /\ action.package # NoPackage
  /\ \E i \in 1..Len(restricted_apps) : contains(action.package, restricted_apps[i])

effective_classification_declared(action) == to_uppercase(action.classification)

effective_classification(action) ==
  LET base == to_uppercase(action.classification)
  IN  IF targets_restricted(action) THEN RED ELSE base

\* action types do_action sends to adb
AdbTypes ==
  { "tap", "long_press", "swipe", "type_text", "press_key", "launch_app", "home",
    "go_home", "back", "go_back", "recents", "open_notifications", "scroll_down",
    "scroll_up", "screenshot" }

\* action types do_action handles without the device
LocalTypes == { "wait", "notify_user" }

\* do_action: the outcomes one dispatch can have.  adb: the dispatch reached
\* adb(); out: what it pushed to the outgoing queue.
do_action(action, id) ==
  IF action.action_type \in AdbTypes
    THEN { [ret |-> Ok("ok"), adb |-> << <<id, action.action_type>> >>, out |-> << >>],
           [ret |-> Err("adb error"), adb |-> << <<id, action.action_type>> >>, out |-> << >>] }
    ELSE IF action.action_type \in LocalTypes
      THEN { [ret |-> Ok("done"), adb |-> << >>, out |-> << >>] }
      ELSE { [ret |-> Ok("sent_to_companion"), adb |-> << >>,
              out |-> << [id |-> id, action_type |-> action.action_type] >>] }

log_action(action, class, result) ==
  action_log' = Append(action_log,
    [action_type |-> action.action_type, classification |-> class, result |-> result])

log_dry_run(action, class) ==
  /\ log_action(action, class, "DRY_RUN")
  /\ exec_ret' = Ok("[DRY_RUN]")
  /\ UNCHANGED << pending, outgoing, adb_calls >>

\* let result = self.do_action(action, &id).await?; self.log_action(..); Ok(result)
run_and_log(action, id, class) ==
  \E o \in do_action(action, id) :
    /\ adb_calls' = adb_calls \o o.adb
    /\ outgoing' = outgoing \o o.out
    /\ IF o.ret.ok THEN log_action(action, class, o.ret.val) ELSE UNCHANGED action_log
    /\ exec_ret' = o.ret
    /\ UNCHANGED pending

queue_for_confirmation_preapproved(action, id) ==
  /\ pending' = Append(pending, [action_id |-> id, action |-> action, confirmed |-> "true"])
  /\ exec_ret' = PendingToken(id)
  /\ UNCHANGED << outgoing, action_log, adb_calls >>

queue_for_confirmation(action, id) ==
  /\ pending' = Append(pending, [action_id |-> id, action |-> action, confirmed |-> "None"])
  /\ exec_ret' = PendingToken(id)
  /\ UNCHANGED << outgoing, action_log, adb_calls >>

\* the arm of execute()'s match on the classification string
match_arm_permissive(classification) ==
  IF classification \in {RED, YELLOW} THEN classification ELSE GREEN

match_arm(classification) ==
  IF classification \in {RED, YELLOW, GREEN} THEN classification ELSE <<"_">>

Execute(action) ==
  /\ n_execute < MaxExecute
  /\ n_execute' = n_execute + 1
  /\ next_id' = next_id + 1
  /\ LET id == next_id
         classification == effective_classification(action)
         arm == match_arm(classification)
     IN  IF arm = RED
           THEN IF targets_restricted(action)
                  THEN queue_for_confirmation(action, id)
                  ELSE IF auto_confirm_red
                         THEN IF dry_run
                                THEN log_dry_run(action, classification)
                                ELSE run_and_log(action, id, RED_AUTO)
                         ELSE queue_for_confirmation(action, id)
           ELSE IF arm \in {YELLOW, GREEN}
             THEN IF dry_run
                    THEN log_dry_run(action, classification)
                    ELSE run_and_log(action, id, classification)
             ELSE /\ exec_ret' = Ok("BLOCKED")
                  /\ UNCHANGED << pending, outgoing, action_log, adb_calls >>
  /\ UNCHANGED << dry_run, restricted_apps, auto_confirm_red, handler, confirm_ret, n_confirm >>

\* pending.iter_mut().find(|p| p.action_id == action_id): its index, 0 if none
find_pending_or_first(action_id) ==
  IF pending = << >> THEN 0 ELSE 1

find_pending(action_id) ==
  IF \E i \in 1..Len(pending) : pending[i].action_id = action_id
    THEN CHOOSE i \in 1..Len(pending) :
           /\ pending[i].action_id = action_id
           /\ \A j \in 1..(i - 1) : pending[j].action_id # action_id
    ELSE 0

\* whether confirm() goes on to do_action after recording the decision
confirm_executes_always(approved) == TRUE

confirm_executes(approved) == approved

\* confirm(), the part under the pending lock: find the entry, record the
\* decision, and either return or go on to execute with the lock dropped
ConfirmLocked(h, action_id, approved) ==
  /\ n_confirm < MaxConfirm
  /\ handler[h].pc = "idle"
  /\ n_confirm' = n_confirm + 1
  /\ LET i == find_pending(action_id)
     IN  IF i # 0
           THEN /\ pending' = [pending EXCEPT ![i].confirmed = IF approved THEN "true" ELSE "false"]
                /\ IF confirm_executes(approved)
                     THEN /\ handler' = [handler EXCEPT ![h] =
                                 [pc |-> "do_action", id |-> action_id, action |-> pending[i].action]]
                          /\ confirm_ret' = [confirm_ret EXCEPT ![h] = NoReturn]
                     ELSE /\ confirm_ret' = [confirm_ret EXCEPT ![h] = Ok("DENIED")]
                          /\ UNCHANGED handler
           ELSE /\ confirm_ret' = [confirm_ret EXCEPT ![h] = Err("No pending action")]
                /\ UNCHANGED << pending, handler >>
  /\ UNCHANGED << dry_run, restricted_apps, auto_confirm_red, outgoing, action_log,
                  adb_calls, next_id, exec_ret, n_execute >>

\* confirm(), after drop(pending): do_action, then log_action on success
ConfirmExecute(h) ==
  /\ handler[h].pc = "do_action"
  /\ \E o \in do_action(handler[h].action, handler[h].id) :
       /\ adb_calls' = adb_calls \o o.adb
       /\ outgoing' = outgoing \o o.out
       /\ IF o.ret.ok
            THEN log_action(handler[h].action, RED_CONFIRMED, o.ret.val)
            ELSE UNCHANGED action_log
       /\ confirm_ret' = [confirm_ret EXCEPT ![h] = o.ret]
  /\ handler' = [handler EXCEPT ![h] = Idle]
  /\ UNCHANGED << dry_run, restricted_apps, auto_confirm_red, pending, next_id,
                  exec_ret, n_execute, n_confirm >>

\* ------------------------------------------------------- FallbackManager

\* the patterns of ErrorClass::classify, in its order of precedence
RateLimitPatterns ==
  { <<"4", "2", "9">>,
    <<"r", "a", "t", "e", " ", "l", "i", "m", "i", "t">>,
    <<"r", "a", "t", "e", "_", "l", "i", "m", "i", "t">>,
    <<"t", "o", "o", " ", "m", "a", "n", "y", " ", "r", "e", "q", "u", "e", "s", "t", "s">>,
    <<"q", "u", "o", "t", "a", " ", "e", "x", "c", "e", "e", "d", "e", "d">>,
    <<"t", "o", "k", "e", "n", "s", " ", "p", "e", "r", " ", "m", "i", "n", "u", "t", "e">>,
    <<"r", "e", "q", "u", "e", "s", "t", "s", " ", "p", "e", "r", " ", "m", "i", "n", "u", "t", "e">> }

AuthPatterns ==
  { <<"4", "0", "1">>,
    <<"4", "0", "3">>,
    <<"u", "n", "a", "u", "t", "h", "o", "r", "i", "z", "e", "d">>,
    <<"f", "o", "r", "b", "i", "d", "d", "e", "n">>,
    <<"i", "n", "v", "a", "l", "i", "d", " ", "a", "p", "i", " ", "k", "e", "y">>,
    <<"i", "n", "v", "a", "l", "i", "d", "_", "a", "p", "i", "_", "k", "e", "y">>,
    <<"a", "u", "t", "h", "e", "n", "t", "i", "c", "a", "t", "i", "o", "n">>,
    <<"b", "i", "l", "l", "i", "n", "g">>,
    <<"i", "n", "s", "u", "f", "f", "i", "c", "i", "e", "n", "t", "_", "q", "u", "o", "t", "a">> }

TimeoutPatterns ==
  { <<"t", "i", "m", "e", "o", "u", "t">>,
    <<"t", "i", "m", "e", "d", " ", "o", "u", "t">>,
    <<"d", "e", "a", "d", "l", "i", "n", "e", " ", "e", "x", "c", "e", "e", "d", "e", "d">>,
    <<"r", "e", "q", "u", "e", "s", "t", " ", "t", "o", "o", "k", " ", "t", "o", "o", " ", "l", "o", "n", "g">> }

ServerErrorPatterns ==
  { <<"5", "0", "0">>,
    <<"5", "0", "2">>,
    <<"5", "0", "3">>,
    <<"5", "0", "4">>,
    <<"i", "n", "t", "e", "r", "n", "a", "l", " ", "s", "e", "r", "v", "e", "r", " ", "e", "r", "r", "o", "r">>,
    <<"b", "a", "d", " ", "g", "a", "t", "e", "w", "a", "y">>,
    <<"s", "e", "r", "v", "i", "c", "e", " ", "u", "n", "a", "v", "a", "i", "l", "a", "b", "l", "e">>,
    <<"o", "v", "e", "r", "l", "o", "a", "d", "e", "d">> }

ClientErrorPatterns ==
  { <<"4", "0", "0">>,
    <<"i", "n", "v", "a", "l", "i", "d", " ", "r", "e", "q", "u", "e", "s", "t">>,
    <<"m", "o", "d", "e", "l", " ", "n", "o", "t", " ", "f", "o", "u", "n", "d">>,
    <<"c", "o", "n", "t", "e", "x", "t", "_", "l", "e", "n", "g", "t", "h", "_", "e", "x", "c", "e", "e", "d", "e", "d">>,
    <<"m", "a", "x", ".", "*", "t", "o", "k", "e", "n">> }

NetworkPatterns ==
  { <<"c", "o", "n", "n", "e", "c", "t", "i", "o", "n", " ", "r", "e", "f", "u", "s", "e", "d">>,
    <<"d", "n", "s">>,
    <<"n", "e", "t", "w", "o", "r", "k">>,
    <<"u", "n", "r", "e", "a", "c", "h", "a", "b", "l", "e">> }

\* error texts a provider call can fail with
ErrorTexts ==
  { <<"H", "T", "T", "P", " ", "4", "2", "9">>,
    <<"4", "0", "1">>,
    <<"T", "i", "m", "e", "o", "u", "t">>,
    <<"5", "0", "0">>,
    <<"4", "0", "0">>,
    <<"d", "n", "s">>,
    <<"w", "e", "i", "r", "d">> }

\* what the error texts handed to classify are made of
ErrorFragments ==
  { <<"4", "2", "9">>,
    <<"r", "a", "t", "e", " ", "l", "i", "m", "i", "t">>,
    <<"R", "a", "t", "e", " ", "L", "i", "m", "i", "t">>,
    <<"4", "0", "0">>,
    <<"m", "o", "d", "e", "l", " ", "n", "o", "t", " ", "f", "o", "u", "n", "d">>,
    <<"4", "0", "1">>,
    <<"t", "i", "m", "e", "o", "u", "t">>,
    <<"5", "0", "0">>,
    <<"d", "n", "s">>,
    <<"x">> }

RECURSIVE concat(_)
concat(parts) == IF parts = << >> THEN << >> ELSE Head(parts) \o concat(Tail(parts))

\* e.to_string(): the error texts of up to MaxFragments fragments
ClassifyInputs ==
  { concat(parts) : parts \in UNION { [1..n -> ErrorFragments] : n \in 0..MaxFragments } }

matches_any(lower, patterns) == \E pattern \in patterns : contains(lower, pattern)

\* classify matching the patterns against the text as written
classify_as_written(error) ==
  LET lower == error
  IN  IF matches_any(lower, RateLimitPatterns) THEN "RateLimit"
      ELSE IF matches_any(lower, AuthPatterns) THEN "AuthError"
      ELSE IF matches_any(lower, TimeoutPatterns) THEN "Timeout"
      ELSE IF matches_any(lower, ServerErrorPatterns) THEN "ServerError"
      ELSE IF matches_any(lower, ClientErrorPatterns) THEN "ClientError"
      ELSE IF matches_any(lower, NetworkPatterns) THEN "NetworkError"
      ELSE "Unknown"

classify(error) ==
  LET lower == to_lowercase(error)
  IN  IF matches_any(lower, RateLimitPatterns) THEN "RateLimit"
      ELSE IF matches_any(lower, AuthPatterns) THEN "AuthError"
      ELSE IF matches_any(lower, TimeoutPatterns) THEN "Timeout"
      ELSE IF matches_any(lower, ServerErrorPatterns) THEN "ServerError"
      ELSE IF matches_any(lower, ClientErrorPatterns) THEN "ClientError"
      ELSE IF matches_any(lower, NetworkPatterns) THEN "NetworkError"
      ELSE "Unknown"

\* should_fallback with the catch-all arm sending the caller on to a fallback
should_fallback_unknown_retried(error_class, config) ==
  CASE error_class = "RateLimit" -> config.fallback_on_rate_limit
    [] error_class = "AuthError" -> config.fallback_on_auth_error
    [] error_class = "Timeout" -> config.fallback_on_timeout
    [] error_class = "ServerError" -> TRUE
    [] error_class = "NetworkError" -> TRUE
    [] error_class = "ClientError" -> FALSE
    [] OTHER -> TRUE

should_fallback(error_class, config) ==
  CASE error_class = "RateLimit" -> config.fallback_on_rate_limit
    [] error_class = "AuthError" -> config.fallback_on_auth_error
    [] error_class = "Timeout" -> config.fallback_on_timeout
    [] error_class = "ServerError" -> TRUE
    [] error_class = "NetworkError" -> TRUE
    [] error_class = "ClientError" -> FALSE
    [] OTHER -> FALSE

\* the provider keys, format!("{}/{}", backend, model)
primary == "openai/gpt-4o"
fallbacks == << "groq/llama-3.3-70b-versatile", "ollama/llama3.2" >>
ProviderKeys == { primary } \cup { fallbacks[i] : i \in 1..Len(fallbacks) }

\* active_model() at a given current_index (fallbacks[] is 1-based here)
model_at(index) ==
  IF index < 0 THEN primary
  ELSE IF index + 1 <= Len(fallbacks) THEN fallbacks[index + 1] ELSE primary

active_model == model_at(current_index)

\* cooldowns.iter().find(|(k, _)| k == &key): the index of the first entry, 0 if none
find_cooldown(cds, key) ==
  IF \E i \in 1..Len(cds) : cds[i].key = key
    THEN CHOOSE i \in 1..Len(cds) :
           /\ cds[i].key = key
           /\ \A j \in 1..(i - 1) : cds[j].key # key
    ELSE 0

\* when.elapsed()
elapsed(when) == clock - when

\* .map(|(_, when)| when.elapsed() < cooldown).unwrap_or(false)
on_cooldown(cds, key) ==
  LET i == find_cooldown(cds, key)
  IN  IF i = 0 THEN FALSE ELSE elapsed(cds[i].when) < fb_config.fallback_cooldown_secs

\* .map(|(_, when)| when.elapsed() >= cooldown).unwrap_or(true)
primary_ready(cds) ==
  LET i == find_cooldown(cds, primary)
  IN  IF i = 0 THEN TRUE ELSE elapsed(cds[i].when) >= fb_config.fallback_cooldown_secs

\* the fallbacks the for loop of advance_to_next can stop at (0-based)
eligible_fallbacks_from_first(cds, index) ==
  { i \in 0..(Len(fallbacks) - 1) : ~on_cooldown(cds, fallbacks[i + 1]) }

eligible_fallbacks(cds, index) ==
  LET start == IF index < 0 THEN 0 ELSE index + 1
  IN  { i \in start..(Len(fallbacks) - 1) : ~on_cooldown(cds, fallbacks[i + 1]) }

Min(S) == CHOOSE x \in S : \A y \in S : x <= y

\* advance_to_next with the cooldown list cds: the new current_index, the
\* new total_fallbacks and the provider returned ("None" for Option::None)
advance_to_next(cds) ==
  LET ready == eligible_fallbacks(cds, current_index)
  IN  IF ready # {}
        THEN [index |-> Min(ready), total |-> total_fallbacks + 1,
              ret |-> fallbacks[Min(ready) + 1]]
        ELSE IF primary_ready(cds) /\ current_index >= 0
          THEN [index |-> -1, total |-> total_fallbacks, ret |-> primary]
          ELSE [index |-> current_index, total |-> total_fallbacks, ret |-> "None"]

ReportFailure(error) ==
  /\ n_failures < MaxFailures
  /\ n_failures' = n_failures + 1
  /\ IF ~should_fallback(classify(error), fb_config)
       THEN /\ fb_ret' = "None"
            /\ UNCHANGED << cooldowns, current_index, total_fallbacks, cooled_at >>
       ELSE LET key == active_model
                cds == Append(cooldowns, [key |-> key, when |-> clock])
                next == advance_to_next(cds)
            IN  /\ cooldowns' = cds
                /\ cooled_at' = [cooled_at EXCEPT ![key] = clock]
                /\ current_index' = next.index
                /\ total_fallbacks' = next.total
                /\ fb_ret' = next.ret
  /\ UNCHANGED << fb_config, clock >>

\* report_success(): a debug line, no state change
ReportSuccess ==
  /\ fb_ret' = "()"
  /\ UNCHANGED << fb_config, cooldowns, current_index, total_fallbacks, clock,
                  cooled_at, n_failures >>

\* cooldowns.retain(|(k, _)| k != &key)
retain_not(cds, key) == SelectSeq(cds, LAMBDA entry : entry.key # key)

CheckPrimaryRecovery ==
  /\ IF current_index < 0
       THEN UNCHANGED << current_index, cooldowns >>
       ELSE IF primary_ready(cooldowns)
         THEN /\ current_index' = -1
              /\ cooldowns' = retain_not(cooldowns, primary)
         ELSE UNCHANGED << current_index, cooldowns >>
  /\ fb_ret' = "()"
  /\ UNCHANGED << fb_config, total_fallbacks, clock, cooled_at, n_failures >>

\* a second passes
Tick ==
  /\ clock < MaxTime
  /\ clock' = clock + 1
  /\ UNCHANGED << fb_config, cooldowns, current_index, total_fallbacks, fb_ret,
                  cooled_at, n_failures >>

\* FallbackManager::new(primary, config)
FallbackNew(config) ==
  /\ fb_config = config
  /\ cooldowns = << >>
  /\ current_index = -1
  /\ total_fallbacks = 0
  /\ clock = 0
  /\ fb_ret = "()"
  /\ cooled_at = [key \in ProviderKeys |-> -1]
  /\ n_failures = 0

\* FallbackConfig::default() with the cooldown given
DefaultFallbackConfig(secs) ==
  [fallback_on_rate_limit |-> TRUE, fallback_on_auth_error |-> TRUE,
   fallback_on_timeout |-> TRUE, fallback_cooldown_secs |-> secs]

FallbackConfigs ==
  [fallback_on_rate_limit : BOOLEAN, fallback_on_auth_error : BOOLEAN,
   fallback_on_timeout : BOOLEAN, fallback_cooldown_secs : 0..MaxCooldown]

\* --------------------------------------------------------- StuckDetector

default_screen_threshold == 3
default_repetition_window == 6
default_repetition_threshold == 3
default_drift_threshold == 5
default_max_recovery == 3

\* StuckConfig::default() with the recovery strategy given
DefaultStuckConfig(strategy) ==
  [screen_threshold |-> default_screen_threshold,
   repetition_window |-> default_repetition_window,
   repetition_threshold |-> default_repetition_threshold,
   drift_threshold |-> default_drift_threshold,
   max_recovery_attempts |-> default_max_recovery,
   recovery_strategy |-> strategy]

\* the [stuck] sections of config.toml: the defaults under every strategy,
\* the defaults with every unchanged screen reported, and a short-fused one
StuckConfigs ==
  { DefaultStuckConfig(strategy) : strategy \in {"escalate", "back", "restart", "ask"} }
    \cup { [DefaultStuckConfig("escalate") EXCEPT !.screen_threshold = 1] }
    \cup { [screen_threshold |-> 2, repetition_window |-> 3, repetition_threshold |-> 2,
            drift_threshold |-> 2, max_recovery_attempts |-> 1,
            recovery_strategy |-> strategy] : strategy \in {"escalate", "ask"} }

\* simple_hash(&screen_text): 0 is the value new() and reset() store
ScreenHashes == {0, 1, 2}

\* (action_type, action_target_key(..)) of the actions recorded
Fingerprints ==
  { [action_type |-> "tap", target |-> "1,1"],
    [action_type |-> "tap", target |-> "2,2"],
    [action_type |-> "back", target |-> "back"],
    [action_type |-> "swipe", target |-> "unknown"] }

NoFingerprint == [action_type |-> "", target |-> ""]

\* StuckDetector::new(config)
StuckDetectorNew(config) ==
  [config |-> config, screen_same_count |-> 0, last_screen_hash |-> 0,
   recent_actions |-> << >>, consecutive_nav_actions |-> 0,
   recovery_attempts |-> 0, escalation_level |-> 0]

\* escalate_recovery with a Hint that starts the count of unchanged screens
\* anew
escalate_recovery_hint_resets(d) ==
  LET e == [d EXCEPT !.escalation_level = @ + 1]
  IN  IF e.escalation_level = 1
        THEN [d |-> [e EXCEPT !.screen_same_count = 0], status |-> "Hint"]
        ELSE IF e.escalation_level = 2
          THEN [d |-> [e EXCEPT !.screen_same_count = 0,
                                !.consecutive_nav_actions = 0],
                status |-> "Recover(Back)"]
          ELSE [d |-> [e EXCEPT !.screen_same_count = 0,
                                !.consecutive_nav_actions = 0,
                                !.recent_actions = << >>],
                status |-> "Recover(HomeAndRelaunch)"]

escalate_recovery(d) ==
  LET e == [d EXCEPT !.escalation_level = @ + 1]
  IN  IF e.escalation_level = 1
        THEN [d |-> e, status |-> "Hint"]
        ELSE IF e.escalation_level = 2
          THEN [d |-> [e EXCEPT !.screen_same_count = 0,
                                !.consecutive_nav_actions = 0],
                status |-> "Recover(Back)"]
          ELSE [d |-> [e EXCEPT !.screen_same_count = 0,
                                !.consecutive_nav_actions = 0,
                                !.recent_actions = << >>],
                status |-> "Recover(HomeAndRelaunch)"]

\* handle_stuck giving up on the detection that passes the ceiling only
handle_stuck_gives_up_once(d) ==
  LET e == [d EXCEPT !.recovery_attempts = @ + 1]
  IN  IF e.recovery_attempts = e.config.max_recovery_attempts + 1
        THEN [d |-> e, status |-> "GiveUp"]
        ELSE CASE e.config.recovery_strategy = "escalate" -> escalate_recovery(e)
               [] e.config.recovery_strategy = "back" ->
                    [d |-> e, status |-> "Recover(Back)"]
               [] e.config.recovery_strategy = "restart" ->
                    [d |-> e, status |-> "Recover(HomeAndRelaunch)"]
               [] OTHER -> [d |-> e, status |-> "Hint"]

handle_stuck(d) ==
  LET e == [d EXCEPT !.recovery_attempts = @ + 1]
  IN  IF e.recovery_attempts > e.config.max_recovery_attempts
        THEN [d |-> e, status |-> "GiveUp"]
        ELSE CASE e.config.recovery_strategy = "escalate" -> escalate_recovery(e)
               [] e.config.recovery_strategy = "back" ->
                    [d |-> e, status |-> "Recover(Back)"]
               [] e.config.recovery_strategy = "restart" ->
                    [d |-> e, status |-> "Recover(HomeAndRelaunch)"]
               [] OTHER -> [d |-> e, status |-> "Hint"]

check_screen(d, screen_hash) ==
  IF screen_hash = d.last_screen_hash /\ d.last_screen_hash # 0
    THEN LET e == [d EXCEPT !.screen_same_count = @ + 1]
         IN  IF e.screen_same_count >= e.config.screen_threshold
               THEN handle_stuck(e)
               ELSE [d |-> e, status |-> "Ok"]
    ELSE [d |-> [d EXCEPT !.screen_same_count = 0,
                          !.last_screen_hash = screen_hash,
                          !.escalation_level = IF @ > 0 THEN @ - 1 ELSE @],
          status |-> "Ok"]

\* push_back, then pop_front while the window is over repetition_window
push_window(recent, fingerprint, window) ==
  LET pushed == Append(recent, fingerprint)
  IN  IF Len(pushed) > window
        THEN SubSeq(pushed, Len(pushed) - window + 1, Len(pushed))
        ELSE pushed

count_same(recent, fingerprint) ==
  Cardinality({ i \in 1..Len(recent) : recent[i] = fingerprint })

is_nav(action_type) == action_type \in {"back", "swipe", "wait", "home", "scroll"}

record_action(d, action_type, target) ==
  LET fingerprint == [action_type |-> action_type, target |-> target]
      e == [d EXCEPT !.recent_actions =
                       push_window(@, fingerprint, d.config.repetition_window)]
  IN  IF count_same(e.recent_actions, fingerprint) >= e.config.repetition_threshold
        THEN handle_stuck(e)
        ELSE IF is_nav(action_type)
          THEN LET f == [e EXCEPT !.consecutive_nav_actions = @ + 1]
               IN  IF f.consecutive_nav_actions >= f.config.drift_threshold
                     THEN handle_stuck(f)
                     ELSE [d |-> f, status |-> "Ok"]
          ELSE [d |-> [e EXCEPT !.consecutive_nav_actions = 0], status |-> "Ok"]

\* reset(): every field but the config back to its value in new()
reset(d) == StuckDetectorNew(d.config)

\* a detector just built, and nothing called on it
StuckNew(config) ==
  /\ stuck = StuckDetectorNew(config)
  /\ stuck_ret = "none"
  /\ stuck_call = [op |-> "new", hash |-> 0, fingerprint |-> NoFingerprint]
  /\ fresh_run = [n |-> 0, hash |-> 0]
  /\ rec_log = << >>
  /\ detections = 0
  /\ observed = << >>
  /\ calm = TRUE
  /\ n_stuck_calls = 0

\* a check_screen call, whatever the number of calls before it
CheckScreenCall(screen_hash) ==
  LET r == check_screen(stuck, screen_hash)
  IN  /\ n_stuck_calls' = n_stuck_calls + 1
      /\ stuck' = r.d
      /\ stuck_ret' = r.status
      /\ stuck_call' = [op |-> "check_screen", hash |-> screen_hash,
                        fingerprint |-> NoFingerprint]
      /\ fresh_run' = IF fresh_run.n = 0
                        THEN [n |-> 1, hash |-> screen_hash]
                        ELSE IF fresh_run.n > 0 /\ fresh_run.hash = screen_hash
                          THEN [fresh_run EXCEPT !.n = @ + 1]
                          ELSE [n |-> -1, hash |-> 0]
      /\ detections' = IF r.status = "Ok" THEN detections ELSE detections + 1
      /\ observed' = << screen_hash >>
      /\ calm' = IF detections > 0 /\ (observed = << >> \/ observed[1] # screen_hash)
                   THEN FALSE ELSE calm
      /\ UNCHANGED rec_log

CheckScreen(screen_hash) ==
  /\ n_stuck_calls < MaxStuckCalls
  /\ CheckScreenCall(screen_hash)

\* a record_action call, whatever the number of calls before it
RecordActionCall(fingerprint) ==
  LET r == record_action(stuck, fingerprint.action_type, fingerprint.target)
  IN  /\ n_stuck_calls' = n_stuck_calls + 1
      /\ stuck' = r.d
      /\ stuck_ret' = r.status
      /\ stuck_call' = [op |-> "record_action", hash |-> 0, fingerprint |-> fingerprint]
      /\ fresh_run' = [n |-> -1, hash |-> 0]
      /\ rec_log' = push_window(rec_log, fingerprint, stuck.config.repetition_window)
      /\ detections' = IF r.status = "Ok" THEN detections ELSE detections + 1
      /\ UNCHANGED << observed, calm >>

RecordAction(fingerprint) ==
  /\ n_stuck_calls < MaxStuckCalls
  /\ RecordActionCall(fingerprint)

Reset ==
  /\ n_stuck_calls < MaxStuckCalls
  /\ n_stuck_calls' = n_stuck_calls + 1
  /\ stuck' = reset(stuck)
  /\ stuck_ret' = "none"
  /\ stuck_call' = [op |-> "reset", hash |-> 0, fingerprint |-> NoFingerprint]
  /\ fresh_run' = [n |-> 0, hash |-> 0]
  /\ rec_log' = << >>
  /\ detections' = 0
  /\ observed' = << >>
  /\ calm' = TRUE

\* ------------------------------------- run_oneshot and the heartbeat loop

HEARTBEAT_OK == <<"H", "E", "A", "R", "T", "B", "E", "A", "T", "_", "O", "K">>

\* response.reflection: none, the idle marker, and a free-text completion
Reflections == { << >>, HEARTBEAT_OK, <<"G", "o", "a", "l", " ", "c", "o", "m", "p", "l", "e", "t", "e", "d">> }

\* the actions a response lists, as (action_type, action_target_key(..))
Batches ==
  LET tap1 == [action_type |-> "tap", target |-> "1,1"]
      tap2 == [action_type |-> "tap", target |-> "2,2"]
      back == [action_type |-> "back", target |-> "back"]
      wait == [action_type |-> "wait", target |-> "wait"]
      done == [action_type |-> "done", target |-> "done"]
  IN  { << >>, << tap1 >>, << tap1, tap1, tap1 >>, << tap1, back, tap2 >>,
        << wait, tap1 >>, << tap1, done >> }

\* brain.parse_response(&raw)
Responses ==
  { [reflection |-> << >>, actions |-> batch] : batch \in Batches }
    \cup { [reflection |-> r, actions |-> << [action_type |-> "tap", target |-> "1,1"] >>] :
             r \in Reflections }

\* what brain.think can return to run_oneshot
ModelReplies == { [tag |-> "None", val |-> << >>] } \cup
                { [tag |-> "Some", val |-> r] : r \in Responses }

starts_with(s, prefix) == Len(s) >= Len(prefix) /\ SubSeq(s, 1, Len(prefix)) = prefix

is_done(r) ==
  \/ \E i \in 1..Len(r.actions) : r.actions[i].action_type \in {"done", "DONE"}
  \/ LET r_lower == to_lowercase(r.reflection)
     IN  \/ contains(r_lower, <<"g", "o", "a", "l", " ", "i", "s", " ", "c", "o", "m", "p", "l", "e", "t", "e">>)
         \/ contains(r_lower, <<"g", "o", "a", "l", " ", "c", "o", "m", "p", "l", "e", "t", "e", "d">>)
         \/ contains(r_lower, <<"t", "a", "s", "k", " ", "i", "s", " ", "d", "o", "n", "e">>)
         \/ contains(r_lower, <<"t", "a", "s", "k", " ", "c", "o", "m", "p", "l", "e", "t", "e">>)
         \/ starts_with(r_lower, <<"d", "o", "n", "e", ":">>)
         \/ starts_with(r_lower, <<"d", "o", "n", "e", " ", "-">>)

\* heartbeat_tick, after a failed action i of len: `if i + 1 < len { break }`
breaks_after_failure_never(i, len) == FALSE

breaks_after_failure(i, len) == i + 1 < len

\* the loop as it starts: run_oneshot at step 1, the daemon before its first tick
DEFAULT_MAX_STEPS == 30

\* run_oneshot: `let max_steps = if max_steps == 0 { DEFAULT_MAX_STEPS } else { max_steps }`
max_steps == IF max_steps_arg = 0 THEN DEFAULT_MAX_STEPS ELSE max_steps_arg

\* the loop as it starts, a one-shot run called with max_steps arg
RunNew(m, bridge, arg) ==
  /\ mode = m
  /\ max_steps_arg = arg
  /\ bridge_mode = bridge
  /\ step = IF m = "oneshot" THEN 1 ELSE 0
  /\ pc = IF m = "oneshot" THEN "perceive" ELSE "tick"
  /\ response = << >>
  /\ idx = 1
  /\ dispatched = << >>
  /\ batch_failed = FALSE
  /\ n_model_calls = 0
  /\ consecutive_ui_actions = 0
  /\ tick_screen_hash = 0
  /\ user_prompt_suffix = << >>
  /\ final_user_prompt = << >>
  /\ hints_due = {}
  /\ running = TRUE
  /\ notifications = << >>
  /\ user_commands = << >>
  /\ delivered = {}
  /\ n_pushed = 0

LoopNew(m, bridge) == RunNew(m, bridge, MaxSteps)

\* hint.message of the Hint a detector call returns: build_stuck_context of
\* the reason, ScreenUnchanged from check_screen, ActionRepetition or
\* NavigationDrift from record_action
hint_message(op) ==
  IF op = "check_screen" THEN "ScreenUnchanged" ELSE "ActionRepetitionOrDrift"

\* run_oneshot: `continue`, a `break` out of the action loop, or its end
\* a for loop that takes one more turn than `1..=max_steps`
NextStepOnceMore ==
  IF step <= max_steps
    THEN step' = step + 1 /\ pc' = "perceive"
    ELSE step' = step /\ pc' = "finished"

NextStep ==
  IF step < max_steps
    THEN step' = step + 1 /\ pc' = "perceive"
    ELSE step' = step /\ pc' = "finished"

\* run_oneshot: perceive, then stuck.check_screen(screen_hash) and its match
OneshotPerceive(screen_hash) ==
  /\ mode = "oneshot"
  /\ pc = "perceive"
  /\ CheckScreenCall(screen_hash)
  /\ IF stuck_ret' = "GiveUp"
       THEN step' = step /\ pc' = "finished"
       ELSE IF stuck_ret' \in {"Recover(Back)", "Recover(HomeAndRelaunch)"}
         THEN NextStep
         ELSE step' = step /\ pc' = "think"
  /\ IF stuck_ret' = "Hint"
       THEN /\ user_prompt_suffix' = << hint_message("check_screen") >>
            /\ hints_due' = hints_due \cup { hint_message("check_screen") }
       ELSE UNCHANGED << user_prompt_suffix, hints_due >>
  /\ UNCHANGED << mode, bridge_mode, max_steps_arg, response, idx, dispatched, batch_failed,
                  n_model_calls, consecutive_ui_actions, tick_screen_hash,
                  final_user_prompt >>
  /\ UNCHANGED daemon_io

\* run_oneshot: brain.think, parse_response, is_done, HEARTBEAT_OK, no actions
\* reply: what brain.think returned, Err (None here) or the raw text that
\* parse_response makes the response of
OneshotThink(reply) ==
  /\ mode = "oneshot"
  /\ pc = "think"
  /\ n_model_calls' = n_model_calls + 1
  /\ final_user_prompt' = user_prompt_suffix
  /\ hints_due' = {}
  /\ IF reply.tag = "None"
       THEN /\ NextStep
            /\ UNCHANGED << response, idx, dispatched, batch_failed >>
       ELSE LET r == reply.val
            IN  /\ response' = r.actions
                /\ idx' = 1
                /\ dispatched' = << >>
                /\ batch_failed' = FALSE
                /\ IF is_done(r)
                     THEN step' = step /\ pc' = "finished"
                     ELSE IF r.reflection = HEARTBEAT_OK \/ r.actions = << >>
                       THEN NextStep
                       ELSE step' = step /\ pc' = "execute"
  /\ UNCHANGED << mode, bridge_mode, max_steps_arg, consecutive_ui_actions, tick_screen_hash,
                  user_prompt_suffix >>
  /\ UNCHANGED daemon_io
  /\ UNCHANGED stuck_vars

\* run_oneshot: one turn of `for action in &response.actions`
OneshotExecute ==
  /\ mode = "oneshot"
  /\ pc = "execute"
  /\ LET action == response[idx]
         Advance == IF idx < Len(response)
                      THEN idx' = idx + 1 /\ step' = step /\ pc' = "execute"
                      ELSE idx' = idx /\ NextStep
     IN  IF action.action_type = "done"
           THEN /\ Advance
                /\ UNCHANGED << dispatched, batch_failed, hints_due >>
                /\ UNCHANGED stuck_vars
           ELSE /\ dispatched' = Append(dispatched, idx)
                /\ \/ /\ batch_failed' = TRUE
                      /\ idx' = idx
                      /\ NextStep
                      /\ UNCHANGED hints_due
                      /\ UNCHANGED stuck_vars
                   \/ /\ RecordActionCall(action)
                      /\ UNCHANGED batch_failed
                      /\ hints_due' = IF stuck_ret' = "Hint"
                                        THEN hints_due \cup { hint_message("record_action") }
                                        ELSE hints_due
                      /\ IF stuck_ret' \in {"Recover(Back)", "Recover(HomeAndRelaunch)",
                                            "GiveUp"}
                           THEN idx' = idx /\ NextStep
                           ELSE Advance
  /\ UNCHANGED << mode, bridge_mode, max_steps_arg, response, n_model_calls,
                  consecutive_ui_actions, tick_screen_hash,
                  user_prompt_suffix, final_user_prompt >>
  /\ UNCHANGED daemon_io

\* the heartbeat loop: `if !*running.lock().await { sleep; continue }`
loop_proceeds_always(is_running) == TRUE

loop_proceeds(is_running) == is_running

Range(s) == { s[i] : i \in 1..Len(s) }

\* the heartbeat loop's check of the running flag and tick_count += 1, and
\* heartbeat_tick up to the action loop; busy: device events are queued
HeartbeatTick(busy, screen_hash) ==
  /\ mode = "daemon"
  /\ pc = "tick"
  /\ step < MaxSteps
  /\ loop_proceeds(running)
  /\ step' = step + 1
  /\ notifications' = << >>
  /\ user_commands' = << >>
  /\ IF notifications = << >> /\ user_commands = << >> /\ ~busy /\ step' % 4 # 0
       THEN UNCHANGED << pc, response, idx, dispatched, batch_failed, n_model_calls,
                         consecutive_ui_actions, tick_screen_hash, delivered >>
       ELSE /\ n_model_calls' = n_model_calls + 1
            /\ \/ UNCHANGED << pc, response, idx, dispatched, batch_failed,
                                consecutive_ui_actions, tick_screen_hash, delivered >>
               \/ \E r \in Responses :
                    /\ response' = r.actions
                    /\ idx' = 1
                    /\ dispatched' = << >>
                    /\ batch_failed' = FALSE
                    /\ consecutive_ui_actions' = 0
                    /\ tick_screen_hash' = screen_hash
                    /\ delivered' = delivered \cup Range(notifications)
                                              \cup Range(user_commands)
                    /\ pc' = IF r.reflection = HEARTBEAT_OK \/ r.actions = << >>
                               THEN "tick" ELSE "execute"
  /\ UNCHANGED << mode, bridge_mode, max_steps_arg, user_prompt_suffix,
                  final_user_prompt, hints_due, running, n_pushed >>

\* what the loop leaves alone while the server and the bridge act
loop_at_rest ==
  << mode, bridge_mode, step, pc, response, idx, dispatched, batch_failed,
     n_model_calls, consecutive_ui_actions, tick_screen_hash,
     user_prompt_suffix, final_user_prompt, hints_due, max_steps_arg >>

\* server: start, and the chat command /start
ServerStart ==
  /\ running' = TRUE
  /\ UNCHANGED << loop_at_rest, notifications, user_commands, delivered, n_pushed >>

\* server: stop, and the chat command /stop
ServerStop ==
  /\ running' = FALSE
  /\ UNCHANGED << loop_at_rest, notifications, user_commands, delivered, n_pushed >>

\* the heartbeat loop's select! after a tick: a kill event arrives
KillSwitch ==
  /\ mode = "daemon"
  /\ pc = "tick"
  /\ step >= 1
  /\ running
  /\ running' = FALSE
  /\ UNCHANGED << loop_at_rest, notifications, user_commands, delivered, n_pushed >>

\* Perception::push_notification
PushNotification ==
  /\ n_pushed < MaxPushes
  /\ n_pushed' = n_pushed + 1
  /\ notifications' = Append(notifications, n_pushed + 1)
  /\ UNCHANGED << loop_at_rest, running, user_commands, delivered >>

\* Perception::push_user_command
PushUserCommand ==
  /\ n_pushed < MaxPushes
  /\ n_pushed' = n_pushed + 1
  /\ user_commands' = Append(user_commands, n_pushed + 1)
  /\ UNCHANGED << loop_at_rest, running, notifications, delivered >>

\* heartbeat_tick: one turn of `for (i, action) in response.actions.iter().enumerate()`
HeartbeatExecute(new_hash) ==
  /\ mode = "daemon"
  /\ pc = "execute"
  /\ dispatched' = Append(dispatched, idx)
  /\ LET action == response[idx]
         i == idx - 1
         len == Len(response)
         Advance == IF idx < len THEN idx' = idx + 1 /\ pc' = "execute"
                                 ELSE idx' = idx /\ pc' = "tick"
         Break == idx' = idx /\ pc' = "tick"
         is_ui == action.action_type \in {"launch_app", "back", "home",
                                          "tap", "long_press", "swipe"}
     IN  \/ /\ batch_failed' = TRUE
            /\ IF breaks_after_failure(i, len) THEN Break ELSE Advance
            /\ UNCHANGED << consecutive_ui_actions, tick_screen_hash >>
         \/ /\ UNCHANGED batch_failed
            /\ IF is_ui
                 THEN /\ consecutive_ui_actions' = consecutive_ui_actions + 1
                      /\ IF /\ consecutive_ui_actions' >= 2
                            /\ i + 1 < len
                            /\ bridge_mode = "adb"
                           THEN IF new_hash # tick_screen_hash
                                  THEN Break /\ UNCHANGED tick_screen_hash
                                  ELSE /\ tick_screen_hash' = new_hash
                                       /\ IF consecutive_ui_actions' >= 6
                                            THEN Break ELSE Advance
                           ELSE Advance /\ UNCHANGED tick_screen_hash
                 ELSE Advance /\ UNCHANGED << consecutive_ui_actions, tick_screen_hash >>
  /\ UNCHANGED << mode, bridge_mode, max_steps_arg, step, response, n_model_calls,
                  user_prompt_suffix, final_user_prompt, hints_due >>
  /\ UNCHANGED daemon_io

\* ------------------------------------------------- Brain::parse_response

\* Texts here are Rust strs: sequences of chars, each a one-character string,
\* except the backtick and the chars that take more than one byte in UTF-8,
\* which are named by their code point.

\* char::len_utf8 of the chars the texts are made of
len_utf8(ch) ==
  IF ch = "U+00E9" THEN 2 ELSE IF ch \in {"U+201C", "U+201D"} THEN 3 ELSE 1

\* str::len of the first k chars: the byte offset of the char after them
byte_offset(s, k) ==
  LET RECURSIVE sum(_)
      sum(i) == IF i = 0 THEN 0 ELSE len_utf8(s[i]) + sum(i - 1)
  IN  sum(k)

Some(v) == [tag |-> "Some", val |-> v]
None == [tag |-> "None", val |-> << >>]
\* the thread panicked
Panic == [tag |-> "Panic", val |-> << >>]

\* &s[a..b] with byte offsets a and b: panics unless both are char boundaries
str_slice(s, a, b) ==
  LET at(n) == { k \in 0..Len(s) : byte_offset(s, k) = n }
  IN  IF at(a) = {} \/ at(b) = {} \/ a > b
        THEN Panic
        ELSE Some(SubSeq(s, (CHOOSE k \in at(a) : TRUE) + 1, CHOOSE k \in at(b) : TRUE))

Whitespace == { " ", "\n" }

\* str::trim_end and str::trim
trim_end(s) ==
  LET solid == { i \in 1..Len(s) : s[i] \notin Whitespace }
  IN  IF solid = {} THEN << >>
        ELSE SubSeq(s, 1, CHOOSE i \in solid : \A j \in solid : j <= i)

trim(s) ==
  LET solid == { i \in 1..Len(s) : s[i] \notin Whitespace }
  IN  IF solid = {} THEN << >>
        ELSE SubSeq(trim_end(s), CHOOSE i \in solid : \A j \in solid : i <= j, Len(trim_end(s)))

\* str::find and str::rfind, as the char position from 1 (0: no match)
find(s, pat) ==
  LET hits == { i \in 1..(Len(s) - Len(pat) + 1) : SubSeq(s, i, i + Len(pat) - 1) = pat }
  IN  IF hits = {} THEN 0 ELSE CHOOSE i \in hits : \A j \in hits : i <= j

rfind(s, pat) ==
  LET hits == { i \in 1..(Len(s) - Len(pat) + 1) : SubSeq(s, i, i + Len(pat) - 1) = pat }
  IN  IF hits = {} THEN 0 ELSE CHOOSE i \in hits : \A j \in hits : j <= i

\* sanitize_llm_json: the curly quotes become \" and a comma that only
\* whitespace separates from } or ] is dropped (the other replacements are of
\* chars the texts of the model do not hold)
sanitize_llm_json(text) ==
  LET RECURSIVE straighten(_, _)
      straighten(lo, hi) ==
        IF lo > hi THEN << >>
        ELSE IF lo = hi
          THEN IF text[lo] \in {"U+201C", "U+201D"} THEN << "\\", "\"" >> ELSE << text[lo] >>
          ELSE straighten(lo, (lo + hi) \div 2) \o straighten((lo + hi) \div 2 + 1, hi)
      s == straighten(1, Len(text))
      solid_after(i) == { j \in (i + 1)..Len(s) : s[j] \notin Whitespace }
      trailing(i) ==
        /\ s[i] = ","
        /\ solid_after(i) # {}
        /\ s[CHOOSE j \in solid_after(i) : \A k \in solid_after(i) : j <= k] \in {"}", "]"}
      RECURSIVE cleaned(_, _)
      cleaned(lo, hi) ==
        IF lo > hi THEN << >>
        ELSE IF lo = hi THEN IF trailing(lo) THEN << >> ELSE << s[lo] >>
        ELSE cleaned(lo, (lo + hi) \div 2) \o cleaned((lo + hi) \div 2 + 1, hi)
  IN  cleaned(1, Len(s))

\* the depth scan of extract_json over s.chars().enumerate(): the index i at
\* which depth returns to 0, -1 if the scan ends first
brace_scan(s) ==
  LET RECURSIVE scan(_, _)
      scan(p, depth) ==
        IF p > Len(s) THEN -1
        ELSE IF s[p] = "{" THEN scan(p + 1, depth + 1)
        ELSE IF s[p] = "}"
          THEN IF depth - 1 = 0 THEN p - 1 ELSE scan(p + 1, depth - 1)
          ELSE scan(p + 1, depth)
  IN  scan(1, 0)

\* the code fence, three backticks (U+0060)
FENCE == << "U+0060", "U+0060", "U+0060" >>
FENCE_JSON == FENCE \o << "j", "s", "o", "n" >>

\* extract_json: the index the scans count is a char index, the slices they
\* return take it as a byte index
extract_json(text) ==
  LET from_start == IF starts_with(text, << "{" >>) THEN brace_scan(text) ELSE -1
      json_fence == find(text, FENCE_JSON)
      after_json == SubSeq(text, json_fence + 7, Len(text))
      fence == find(text, FENCE)
      after == SubSeq(text, fence + 3, Len(text))
      inner == trim(SubSeq(after, 1, find(after, FENCE) - 1))
      start == find(text, << "{" >>)
      anywhere == IF start = 0 THEN -1 ELSE brace_scan(SubSeq(text, start, Len(text)))
  IN  IF from_start # -1
        THEN str_slice(text, 0, from_start + 1)
      ELSE IF json_fence # 0 /\ find(after_json, FENCE) # 0
        THEN Some(trim(SubSeq(after_json, 1, find(after_json, FENCE) - 1)))
      ELSE IF fence # 0 /\ find(after, FENCE) # 0 /\ starts_with(inner, << "{" >>)
        THEN Some(inner)
      ELSE IF anywhere # -1
        THEN str_slice(text, byte_offset(text, start - 1),
                       byte_offset(text, start - 1) + anywhere + 1)
      ELSE None

\* the bracket count of repair_truncated_json: net open { and [ outside strings
open_counts(s) ==
  LET RECURSIVE count(_, _, _, _)
      count(p, in_string, braces, brackets) ==
        IF p > Len(s) THEN [braces |-> braces, brackets |-> brackets]
        ELSE LET prev_char == IF p = 1 THEN " " ELSE s[p - 1]
                 now_in == IF s[p] = "\"" /\ prev_char # "\\" THEN ~in_string ELSE in_string
             IN  IF now_in THEN count(p + 1, now_in, braces, brackets)
                 ELSE count(p + 1, now_in,
                            braces + (IF s[p] = "{" THEN 1 ELSE IF s[p] = "}" THEN -1 ELSE 0),
                            brackets + (IF s[p] = "[" THEN 1 ELSE IF s[p] = "]" THEN -1 ELSE 0))
  IN  count(1, FALSE, 0, 0)

repair_truncated_json(s) ==
  LET start == find(s, << "{" >>)
      json_part == SubSeq(s, start, Len(s))
      quote_count == Cardinality({ i \in 1..Len(json_part) : json_part[i] = "\"" })
      last_quote == rfind(json_part, << "\"" >>)
      before == SubSeq(json_part, 1, last_quote - 1)
      unquoted ==
        IF quote_count % 2 # 0
          THEN IF rfind(before, << "," >>) # 0
                 THEN SubSeq(json_part, 1, rfind(before, << "," >>) - 1)
               ELSE IF rfind(before, << "{" >>) # 0
                 THEN SubSeq(json_part, 1, rfind(before, << "{" >>))
               ELSE json_part
          ELSE json_part
      trimmed == trim_end(unquoted)
      result ==
        IF trimmed # << >> /\ trimmed[Len(trimmed)] = ","
          THEN SubSeq(trimmed, 1, Len(trimmed) - 1)
          ELSE unquoted
      open == open_counts(result)
  IN  IF start = 0 THEN s
      ELSE result \o [i \in 1..open.brackets |-> "]"] \o [i \in 1..open.braces |-> "}"]

\* ---- serde_json, for the JSON the texts of the model hold: objects, arrays,
\* strings with \-escapes, and unsigned integers

Digits == { "0", "1", "2" }

skip_ws(s, i) ==
  LET solid == { j \in i..Len(s) : s[j] \notin Whitespace }
  IN  IF solid = {} THEN Len(s) + 1 ELSE CHOOSE j \in solid : \A k \in solid : j <= k

\* s[i] opens a string: the position after its closing quote, 0 if it has none
json_string_end(s, i) ==
  LET RECURSIVE close(_)
      close(j) ==
        IF j > Len(s) THEN 0
        ELSE IF s[j] = "\\" THEN close(j + 2)
        ELSE IF s[j] = "\"" THEN j + 1
        ELSE close(j + 1)
  IN  close(i + 1)

\* the position after the JSON value that starts at or after i0, 0 if there
\* is no well-formed value there; each step of the parser is an operator on
\* the position the step before it reached
RECURSIVE json_value_end(_, _)
json_value_end(s, i0) ==
  LET RECURSIVE members(_), elements(_), digits(_)
      member_sep(n) ==
        IF n > Len(s) THEN 0
        ELSE IF s[n] = "}" THEN n + 1
        ELSE IF s[n] = "," THEN members(n + 1)
        ELSE 0
      member_value(value_end) ==
        IF value_end = 0 THEN 0 ELSE member_sep(skip_ws(s, value_end))
      member_colon(colon) ==
        IF colon <= Len(s) /\ s[colon] = ":"
          THEN member_value(json_value_end(s, colon + 1)) ELSE 0
      member_key(key_end) ==
        IF key_end = 0 THEN 0 ELSE member_colon(skip_ws(s, key_end))
      member_at(k) ==
        IF k <= Len(s) /\ s[k] = "\"" THEN member_key(json_string_end(s, k)) ELSE 0
      members(k0) == member_at(skip_ws(s, k0))
      element_sep(n) ==
        IF n > Len(s) THEN 0
        ELSE IF s[n] = "]" THEN n + 1
        ELSE IF s[n] = "," THEN elements(n + 1)
        ELSE 0
      element_value(value_end) ==
        IF value_end = 0 THEN 0 ELSE element_sep(skip_ws(s, value_end))
      elements(k0) == element_value(json_value_end(s, k0))
      digits(k) == IF k <= Len(s) /\ s[k] \in Digits THEN digits(k + 1) ELSE k
      object(inner) ==
        IF inner <= Len(s) /\ s[inner] = "}" THEN inner + 1 ELSE members(inner)
      array(inner) ==
        IF inner <= Len(s) /\ s[inner] = "]" THEN inner + 1 ELSE elements(inner)
      value_at(i) ==
        IF i > Len(s) THEN 0
        ELSE IF s[i] = "\"" THEN json_string_end(s, i)
        ELSE IF s[i] = "{" THEN object(skip_ws(s, i + 1))
        ELSE IF s[i] = "[" THEN array(skip_ws(s, i + 1))
        ELSE IF s[i] \in Digits THEN digits(i)
        ELSE 0
  IN  value_at(skip_ws(s, i0))

\* serde_json::from_str::<Value>(s).is_ok(): one value and nothing after it
is_json(s) ==
  LET whole(value_end) == value_end # 0 /\ skip_ws(s, value_end) = Len(s) + 1
  IN  whole(json_value_end(s, 1))

\* the members of the well-formed object s, in order: the key (between its
\* quotes) and the text of the value
json_members(s) ==
  LET RECURSIVE members(_)
      more(n) == IF s[n] = "," THEN members(n + 1) ELSE << >>
      member(k, key_end, from, value_end) ==
        << [key |-> SubSeq(s, k + 1, key_end - 2), value |-> SubSeq(s, from, value_end - 1)] >>
          \o more(skip_ws(s, value_end))
      member_from(k, key_end, from) == member(k, key_end, from, json_value_end(s, from))
      member_key(k, key_end) == member_from(k, key_end, skip_ws(s, skip_ws(s, key_end) + 1))
      member_at(k) == member_key(k, json_string_end(s, k))
      members(k0) == member_at(skip_ws(s, k0))
      object(open) ==
        IF s[open] # "{" \/ s[skip_ws(s, open + 1)] = "}" THEN << >> ELSE members(open + 1)
  IN  object(skip_ws(s, 1))

\* the elements of the well-formed array s, in order, as texts
json_elements(s) ==
  LET RECURSIVE elements(_)
      more(n) == IF s[n] = "," THEN elements(n + 1) ELSE << >>
      element(from, value_end) ==
        << SubSeq(s, from, value_end - 1) >> \o more(skip_ws(s, value_end))
      element_at(from) == element(from, json_value_end(s, from))
      elements(k0) == element_at(skip_ws(s, k0))
      array(open) ==
        IF s[open] # "[" \/ s[skip_ws(s, open + 1)] = "]" THEN << >> ELSE elements(open + 1)
  IN  array(skip_ws(s, 1))

\* Value::get(key): the text of the member's value, None if s is no object or
\* has no such member (of two members with one key the later one counts)
json_get(s, key) ==
  LET pick(ms) ==
        LET hits == { i \in 1..Len(ms) : ms[i].key = key }
        IN  IF hits = {} THEN None
              ELSE Some(ms[CHOOSE i \in hits : \A j \in hits : j <= i].value)
  IN  pick(json_members(s))

\* Value::as_str: the chars of a string value with \" and \\ unescaped
json_as_str(v) ==
  LET RECURSIVE unescape(_)
      unescape(j) ==
        IF j >= Len(v) THEN << >>
        ELSE IF v[j] = "\\" THEN << v[j + 1] >> \o unescape(j + 2)
        ELSE << v[j] >> \o unescape(j + 1)
  IN  IF v # << >> /\ v[1] = "\"" THEN Some(unescape(2)) ELSE None

\* serde_json::from_str::<AgentAction>(s): an object with a string member
\* "type" (no other member of the model's texts has a type to get wrong)
from_str_AgentAction(s) ==
  LET named(name) == IF name.tag = "Some" THEN Some([action_type |-> name.val]) ELSE None
      typed(type) == IF type.tag = "Some" THEN named(json_as_str(type.val)) ELSE None
  IN  IF is_json(s) THEN typed(json_get(s, << "t", "y", "p", "e" >>)) ELSE None

\* the actions member as Vec<AgentAction>: None if it is absent, no array, or
\* holds an element that is no AgentAction
json_actions(s) ==
  LET collect(actions) ==
        IF \A i \in 1..Len(actions) : actions[i].tag = "Some"
          THEN Some([i \in 1..Len(actions) |-> actions[i].val])
          ELSE None
      typed(items) == collect([i \in 1..Len(items) |-> from_str_AgentAction(items[i])] \o << >>)
      listed(member) ==
        IF member.tag = "Some" /\ member.val[1] = "["
          THEN typed(json_elements(member.val)) ELSE None
  IN  listed(json_get(s, << "a", "c", "t", "i", "o", "n", "s" >>))

AgentResponse(actions, reflection) == [actions |-> actions, reflection |-> reflection]

\* try_parse_json: the typed parse and the parse through Value give the same
\* response wherever the typed one succeeds
try_parse_json(json_str) ==
  LET built(actions, reflection) ==
        Some(AgentResponse(
          IF actions.tag = "Some" THEN actions.val ELSE << >>,
          IF reflection.tag = "Some" THEN json_as_str(reflection.val) ELSE None))
  IN  IF ~is_json(json_str) THEN None
      ELSE built(json_actions(json_str),
                    json_get(json_str, << "r", "e", "f", "l", "e", "c", "t", "i", "o", "n" >>))

\* extract_partial_actions: the objects one level inside the first { after
\* "actions"...[ that parse as an AgentAction
extract_partial_actions(s) ==
  LET key == find(s, << "\"", "a", "c", "t", "i", "o", "n", "s", "\"" >>)
      bracket == IF key = 0 THEN 0 ELSE find(SubSeq(s, key, Len(s)), << "[" >>)
      found(action) == IF action.tag = "Some" THEN << action.val >> ELSE << >>
      some(actions) == IF actions = << >> THEN None ELSE Some(actions)
      scan(rest) ==
        LET RECURSIVE walk(_, _, _, _)
            walk(i, depth, obj_start, in_string) ==
              IF i > Len(rest) THEN << >>
              ELSE LET c == rest[i]
                       prev == IF i = 1 THEN " " ELSE rest[i - 1]
                       now_in == IF c = "\"" /\ prev # "\\" THEN ~in_string ELSE in_string
                   IN  IF now_in THEN walk(i + 1, depth, obj_start, now_in)
                       ELSE IF c = "{"
                         THEN walk(i + 1, depth + 1, IF depth = 1 THEN i ELSE obj_start, now_in)
                       ELSE IF c = "}"
                         THEN IF depth - 1 = 1 /\ obj_start # 0
                                THEN found(from_str_AgentAction(SubSeq(rest, obj_start, i)))
                                       \o walk(i + 1, depth - 1, 0, now_in)
                                ELSE walk(i + 1, depth - 1, obj_start, now_in)
                       ELSE IF c = "]" /\ depth = 1 THEN << >>
                       ELSE walk(i + 1, depth, obj_start, now_in)
        IN  some(walk(1, 0, 0, FALSE))
  IN  IF key = 0 \/ bracket = 0 THEN None
      ELSE scan(SubSeq(s, key + bracket - 1, Len(s)))

PARTIAL_RECOVERED ==
  << "(", "p", "a", "r", "t", "i", "a", "l", " ", "r", "e", "s", "p", "o", "n", "s", "e", " ",
     "r", "e", "c", "o", "v", "e", "r", "e", "d", ")" >>

\* how many chars of the text the last resort keeps
REFLECTION_CHARS == 500

\* s.chars().take(n).collect()
take(s, n) == SubSeq(s, 1, IF Len(s) < n THEN Len(s) ELSE n)

\* ---- parse_response: each attempt is an operator on what the ones before
\* it left; the result is the response and the stage that produced it, or a
\* panic

Returned(stage, resp) == [tag |-> "Returned", stage |-> stage, resp |-> resp]

\* if let Some(json_str) = extract_json(..) { if let Ok(r) = try_parse_json(..) {..} }
parse_extracted(json_str) ==
  IF json_str.tag = "Some" THEN try_parse_json(json_str.val) ELSE None

\* last resort: the head of the text as reflection
last_resort(trimmed) ==
  Returned("last_resort", AgentResponse(<< >>, Some(take(trimmed, REFLECTION_CHARS))))

\* "Try extracting individual actions from broken JSON"
partial_actions(trimmed, actions) ==
  IF actions.tag = "Some"
    THEN Returned("partial", AgentResponse(actions.val, Some(PARTIAL_RECOVERED)))
    ELSE last_resort(trimmed)

\* "Try repairing truncated JSON"
repaired_parse_result(trimmed, sanitized, outcome) ==
  IF outcome.tag = "Some" THEN Returned("repaired", outcome.val)
  ELSE partial_actions(trimmed, extract_partial_actions(sanitized))

repaired_parse(trimmed, sanitized, json_str) ==
  IF json_str.tag = "Panic" THEN [tag |-> "Panic"]
  ELSE repaired_parse_result(trimmed, sanitized, parse_extracted(json_str))

\* "Try normal parse"
normal_parse_result(trimmed, sanitized, outcome) ==
  IF outcome.tag = "Some" THEN Returned("parsed", outcome.val)
  ELSE repaired_parse(trimmed, sanitized, extract_json(repair_truncated_json(sanitized)))

normal_parse(trimmed, sanitized, json_str) ==
  IF json_str.tag = "Panic" THEN [tag |-> "Panic"]
  ELSE normal_parse_result(trimmed, sanitized, parse_extracted(json_str))

parse_sanitized(trimmed, sanitized) == normal_parse(trimmed, sanitized, extract_json(sanitized))

parse_trimmed(trimmed) ==
  IF contains(trimmed, HEARTBEAT_OK)
    THEN Returned("heartbeat", AgentResponse(<< >>, Some(HEARTBEAT_OK)))
    ELSE parse_sanitized(trimmed, sanitize_llm_json(trimmed))

parse_response(raw_text) == parse_trimmed(trim(raw_text))

\* ---- the raw texts parse_response is given

\* the replies of a model: JSON objects, and one with the usual slips
Replies ==
  LET \* one action and an ASCII reflection
      plain == << "{", "\"", "a", "c", "t", "i", "o", "n", "s", "\"", ":", "[", "{", "\"", "t",
          "y", "p", "e", "\"", ":", "\"", "t", "a", "p", "\"", "}", "]", ",", "\"", "r", "e",
          "f", "l", "e", "c", "t", "i", "o", "n", "\"", ":", "\"", "o", "k", "\"", "}" >>
      \* a } inside a string literal
      brace == << "{", "\"", "a", "c", "t", "i", "o", "n", "s", "\"", ":", "[", "{", "\"", "t",
          "y", "p", "e", "\"", ":", "\"", "t", "a", "p", "\"", "}", "]", ",", "\"", "r", "e",
          "f", "l", "e", "c", "t", "i", "o", "n", "\"", ":", "\"", "a", "}", "b", "\"", "}" >>
      \* a { inside a string literal
      open == << "{", "\"", "a", "c", "t", "i", "o", "n", "s", "\"", ":", "[", "{", "\"", "t",
          "y", "p", "e", "\"", ":", "\"", "b", "a", "c", "k", "\"", "}", "]", ",", "\"", "r",
          "e", "f", "l", "e", "c", "t", "i", "o", "n", "\"", ":", "\"", "{", "\"", "}" >>
      \* a reflection of multi-byte chars
      accents == << "{", "\"", "a", "c", "t", "i", "o", "n", "s", "\"", ":", "[", "{", "\"", "t",
          "y", "p", "e", "\"", ":", "\"", "t", "a", "p", "\"", "}", "]", ",", "\"", "r", "e",
          "f", "l", "e", "c", "t", "i", "o", "n", "\"", ":", "\"", "U+00E9", "U+00E9", "U+00E9",
          "\"", "}" >>
      \* two actions, one with params, and whitespace
      nested == << "{", "\"", "r", "e", "f", "l", "e", "c", "t", "i", "o", "n", "\"", ":", "\"",
          "U+00E9", "\"", ",", " ", "\"", "a", "c", "t", "i", "o", "n", "s", "\"", ":", "[", "{",
          "\"", "t", "y", "p", "e", "\"", ":", "\"", "t", "a", "p", "\"", ",", "\"", "p", "a",
          "r", "a", "m", "s", "\"", ":", "{", "\"", "x", "\"", ":", "1", "}", "}", ",", "{",
          "\"", "t", "y", "p", "e", "\"", ":", "\"", "b", "a", "c", "k", "\"", "}", "]", "}" >>
      \* trailing commas and curly quotes
      sloppy == << "{", "\"", "a", "c", "t", "i", "o", "n", "s", "\"", ":", "[", "{", "\"", "t",
          "y", "p", "e", "\"", ":", "\"", "t", "a", "p", "\"", "}", ",", "]", ",", "\"", "r",
          "e", "f", "l", "e", "c", "t", "i", "o", "n", "\"", ":", "\"", "U+201C", "o", "k",
          "U+201D", "\"", ",", "}" >>
  IN  { plain, brace, open, accents, nested, sloppy }

\* the longest raw text: one char more than the last resort keeps
MaxTextChars == 501

\* what a model can answer: a reply cut anywhere (truncation by the token
\* limit), a reply inside prose or a fence, the idle marker, no JSON at all
RawTexts ==
  LET prose == << "I", " ", "w", "i", "l", "l", " ", "t", "a", "p", ".", " " >>
      fenced(lang, reply) == FENCE \o lang \o << "\n" >> \o reply \o << "\n" >> \o FENCE
      \* an action one object too deep, and a } inside a string literal
      wrapped == << "{", "\"", "a", "c", "t", "i", "o", "n", "s", "\"", ":", "[", "{", "\"", "s",
          "t", "e", "p", "\"", ":", "{", "\"", "t", "y", "p", "e", "\"", ":", "\"", "t", "a",
          "p", "\"", "}", "}", "]", ",", "\"", "r", "e", "f", "l", "e", "c", "t", "i", "o", "n",
          "\"", ":", "\"", "a", "}", "b", "\"", "}" >>
      \* well-formed JSON with an action that has no type beside one that has
      mixed == << "{", "\"", "a", "c", "t", "i", "o", "n", "s", "\"", ":", "[", "{", "\"", "t",
          "y", "p", "e", "\"", ":", "\"", "t", "a", "p", "\"", "}", ",", "{", "\"", "x", "\"",
          ":", "1", "}", "]", ",", "\"", "r", "e", "f", "l", "e", "c", "t", "i", "o", "n",
          "\"", ":", "\"", "o", "k", "\"", "}" >>
  IN  UNION { { SubSeq(reply, 1, n) : n \in 0..Len(reply) } : reply \in Replies }
        \cup { prose \o reply : reply \in Replies }
        \cup { fenced(lang, reply) : lang \in { << >>, << "j", "s", "o", "n" >> },
                                     reply \in Replies }
        \cup { wrapped, mixed, << " " >> \o HEARTBEAT_OK \o << "\n" >>, prose, << " ", "\n" >>,
               << "}", "{" >>, prose \o << "}" >>,
               [i \in 1..MaxTextChars |-> "x"], [i \in 1..(MaxTextChars - 1) |-> "x"] }

\* no parse_response call yet
NoParse ==
  /\ raw = << >>
  /\ parsed = [tag |-> "none"]

ParseResponse ==
  /\ parsed.tag = "none"
  /\ parsed' = parse_response(raw)
  /\ UNCHANGED << raw, perceived >>

\* ---------------------------------------------- the perception pass

\* sanitizer.rs
DEFAULT_MAX_ELEMENTS == 50
VISION_FALLBACK_THRESHOLD == 5
\* perception/mod.rs
MAX_ELEMENTS == 40

\* the most <node ...> tags a dump holds
MaxNodes == 5

\* The <node ...> tags of a dump, by what get_attr reads from them: the short
\* class name, clickable, the length of text, and bounds as parse_bounds
\* returns it (<< >>: fewer than four numbers).  The other attributes are
\* those of an enabled node that is neither editable, long-clickable,
\* focusable, scrollable nor checkable and has no content-desc and no
\* resource-id.  closed is FALSE for a tag the dump ends in before its >.
NodeTags ==
  LET box(left, top) == << left, top, left + 200, top + 200 >>
      node(class, clickable, text_len, bounds, package) ==
        [class_short |-> class, clickable |-> clickable, text_len |-> text_len,
         bounds |-> bounds, package |-> package, closed |-> TRUE]
  IN  { node("Button", TRUE, 0, box(0, 400), "com.whatsapp"),
        node("TextView", FALSE, 4, box(0, 0), "com.whatsapp"),
        node("Button", TRUE, 0, << 0, 0, 0, 0 >>, "com.android.systemui"),
        node("TextView", FALSE, 4, << >>, "com.android.systemui"),
        node("FrameLayout", FALSE, 0, box(0, 0), "com.whatsapp") }

\* the package attributes of the tags
Packages == { "com.whatsapp", "com.android.systemui" }

UnclosedTag ==
  [class_short |-> "Button", clickable |-> TRUE, text_len |-> 0, bounds |-> << >>,
   package |-> "", closed |-> FALSE]

\* dump_accessibility_tree: no dump, or the tags of the XML it returned, the
\* last of which may be cut short
Dumps ==
  LET whole == UNION { [1..n -> NodeTags] : n \in 0..MaxNodes }
  IN  { [present |-> FALSE, nodes |-> << >>] }
        \cup { [present |-> TRUE, nodes |-> nodes] : nodes \in whole }
        \cup { [present |-> TRUE, nodes |-> Append(nodes, UnclosedTag)] : nodes \in whole }

VisionModes == { "Off", "Fallback", "Always" }

\* slice::sort_by, a stable sort.  The comparator is given by key, where
\* key[i] is a pair and cmp(s[i], s[j]) = Less when key[i] comes before
\* key[j], first component first.
sort_by(s, key) ==
  LET k == key \o << >>
      before(i, j) ==
        \/ k[i][1] < k[j][1]
        \/ (k[i][1] = k[j][1] /\ k[i][2] < k[j][2])
      place(i) ==
        1 + Cardinality({ j \in 1..Len(s) :
              \/ before(j, i)
              \/ (~before(i, j) /\ j < i) })
  IN  [n \in 1..Len(s) |-> s[CHOOSE i \in 1..Len(s) : place(i) = n]] \o << >>

\* Vec::truncate
truncate(s, len) == SubSeq(s, 1, IF Len(s) < len THEN Len(s) ELSE len)

\* elem.index = i + 1 over iter_mut().enumerate()
reindex(s) == [i \in 1..Len(s) |-> [s[i] EXCEPT !.index = i]]

\* parse_node_tag (sanitizer.rs): None when the bounds do not parse
parse_node_tag(tag, index) ==
  IF tag.bounds = << >> THEN None
  ELSE Some([index |-> index, class_short |-> tag.class_short, clickable |-> tag.clickable,
             text_len |-> tag.text_len, bounds |-> tag.bounds,
             package |-> tag.package,
             center |-> << (tag.bounds[1] + tag.bounds[3]) \div 2,
                           (tag.bounds[2] + tag.bounds[4]) \div 2 >>,
             score |-> 0])

is_useful_element(elem) ==
  \/ elem.clickable
  \/ /\ elem.text_len > 0
     /\ elem.bounds[3] - elem.bounds[1] > 0
     /\ elem.bounds[4] - elem.bounds[2] > 0

\* score_element (sanitizer.rs), in hundredths.  (area.ln() * 0.5).min(5.0) is
\* 5.0 from area e^10 on: the boxes of the model have area 0 or 40000.
score_element(elem) ==
  LET width == elem.bounds[3] - elem.bounds[1]
      height == elem.bounds[4] - elem.bounds[2]
      area == (IF width > 0 THEN width ELSE 0) * (IF height > 0 THEN height ELSE 0)
      text_len == IF elem.text_len < 100 THEN elem.text_len ELSE 100
  IN  (IF elem.clickable THEN 1000 ELSE 0)
        + (IF elem.text_len > 0 THEN 500 + text_len * 2 ELSE 0)
        + (IF area > 100 THEN 500 ELSE 0)
        - (IF area < 10 THEN 1000 ELSE 0)
        - (IF elem.bounds[1] < -10 \/ elem.bounds[2] < -10 THEN 2000 ELSE 0)
        - (IF ~elem.clickable /\ elem.class_short = "FrameLayout" THEN 1500 ELSE 0)
        + (IF elem.class_short = "Button" THEN 300 ELSE 0)

\* let needs_vision_fallback = interactive_count < VISION_FALLBACK_THRESHOLD
needs_vision_fallback(interactive_count) == interactive_count < VISION_FALLBACK_THRESHOLD

SanitizedScreen(elements, interactive_count, needs_fallback, raw_count, foreground_package) ==
  [elements |-> elements, interactive_count |-> interactive_count,
   needs_vision_fallback |-> needs_fallback, raw_count |-> raw_count,
   foreground_package |-> foreground_package]

\* the tags the scan of parse_accessibility_xml reads: those before the first
\* tag without its >
scanned(nodes) ==
  SubSeq(nodes, 1, Cardinality({ i \in 1..Len(nodes) : \A j \in 1..i : nodes[j].closed }))

\* package_counts: the tags read that parse_node_tag accepts, by package
package_counts(nodes) ==
  LET counted(read) ==
        [pkg \in Packages |->
           Cardinality({ i \in 1..Len(read) :
                           read[i].bounds # << >> /\ read[i].package = pkg })]
  IN  counted(scanned(nodes))

\* package_counts.into_iter().max_by_key(|(_, count)| *count): an entry with
\* the highest count, whichever the HashMap yields last among several
foreground_packages(nodes) ==
  LET counts == package_counts(nodes)
      counted == { pkg \in Packages : counts[pkg] > 0 }
  IN  IF counted = {} THEN { [tag |-> "None", val |-> << >>] }
      ELSE { [tag |-> "Some", val |-> pkg] :
               pkg \in { p \in counted : \A q \in counted : counts[q] <= counts[p] } }

\* parse_accessibility_xml: the scan stops at a tag without its >;
\* foreground_package is the entry max_by_key returned
parse_accessibility_xml(nodes, max_elements, foreground_package) ==
  LET RECURSIVE scan(_, _)
      scan(pos, index) ==
        IF pos > Len(nodes) \/ ~nodes[pos].closed THEN << >>
        ELSE LET elem == parse_node_tag(nodes[pos], index)
             IN  IF elem.tag = "Some" /\ is_useful_element(elem.val)
                   THEN << elem.val >> \o scan(pos + 1, index + 1)
                   ELSE scan(pos + 1, index)
      elements == scan(1, 0)
      interactive_count == Cardinality({ i \in 1..Len(elements) : elements[i].clickable })
      scored == [i \in 1..Len(elements) |-> [elements[i] EXCEPT !.score = score_element(elements[i])]]
      \* b.score.partial_cmp(&a.score): descending
      sorted == sort_by(scored, [i \in 1..Len(scored) |-> << -scored[i].score, 0 >>])
      max == IF max_elements = 0 THEN DEFAULT_MAX_ELEMENTS ELSE max_elements
  IN  SanitizedScreen(reindex(truncate(sorted, max)), interactive_count,
                      needs_vision_fallback(interactive_count), Len(elements),
                      foreground_package)

\* parse_ui_elements (perception/mod.rs) with its own score_element, in
\* tenths; bounds that do not parse are [0, 0, 0, 0]
parse_ui_elements(nodes) ==
  LET bounds_arr(tag) == IF tag.bounds = << >> THEN << 0, 0, 0, 0 >> ELSE tag.bounds
      has_info(tag) == tag.text_len > 0 \/ tag.clickable
      has_area(tag) == bounds_arr(tag)[3] > bounds_arr(tag)[1] /\ bounds_arr(tag)[4] > bounds_arr(tag)[2]
      score(tag) ==
        (IF tag.text_len > 0 THEN 30 ELSE 0) + (IF tag.clickable THEN 40 ELSE 0)
          + (IF tag.class_short = "Button" THEN 20 ELSE IF tag.class_short = "TextView" THEN 5 ELSE 0)
          + (IF (tag.bounds[3] - tag.bounds[1]) * (tag.bounds[4] - tag.bounds[2]) > 50000 THEN 10 ELSE 0)
          + (IF (tag.bounds[3] - tag.bounds[1]) * (tag.bounds[4] - tag.bounds[2]) > 200000 THEN 5 ELSE 0)
          - (IF tag.bounds[3] - tag.bounds[1] < 20 \/ tag.bounds[4] - tag.bounds[2] < 20 THEN 30 ELSE 0)
      kept == SelectSeq(nodes, LAMBDA tag : has_info(tag) /\ has_area(tag))
      all_elements ==
        [i \in 1..Len(kept) |->
          [index |-> 0, class_short |-> kept[i].class_short, clickable |-> kept[i].clickable,
           text_len |-> kept[i].text_len, bounds |-> kept[i].bounds,
           center |-> << (kept[i].bounds[1] + kept[i].bounds[3]) \div 2,
                         (kept[i].bounds[2] + kept[i].bounds[4]) \div 2 >>,
           score |-> score(kept[i])]]
      by_score ==
        truncate(sort_by(all_elements,
                         [i \in 1..Len(all_elements) |-> << -all_elements[i].score, 0 >>]),
                 MAX_ELEMENTS)
      \* a.center_y.cmp(&b.center_y).then(a.center_x.cmp(&b.center_x))
  IN  reindex(sort_by(by_score,
                      [i \in 1..Len(by_score) |-> << by_score[i].center[2], by_score[i].center[1] >>]))

\* perceive_screen, step 3
need_screenshot_when_requested(vision_mode, fallback) == vision_mode = "Always"

need_screenshot(vision_mode, fallback) ==
  CASE vision_mode = "Off" -> FALSE
    [] vision_mode = "Always" -> TRUE
    [] vision_mode = "Fallback" -> fallback

\* no perception pass yet
NoPerception == perceived = [pass |-> "none"]

\* perceive_screen(adb_device, vision_mode, max_elements); tree_xml is what
\* dump_accessibility_tree returns and shot what take_screenshot_base64 would
PerceiveScreen(tree_xml, vision_mode, max_elements, shot) ==
  /\ perceived.pass = "none"
  /\ \E foreground_package \in foreground_packages(tree_xml.nodes) :
     LET screen == IF tree_xml.present
                     THEN parse_accessibility_xml(tree_xml.nodes, max_elements,
                                                  foreground_package)
                     ELSE SanitizedScreen(<< >>, 0, TRUE, 0, [tag |-> "None", val |-> << >>])
         need == need_screenshot(vision_mode, screen.needs_vision_fallback)
     IN  perceived' =
           [pass |-> "perceive_screen", tree_xml |-> tree_xml, vision_mode |-> vision_mode,
            max_elements |-> max_elements, with_screenshot |-> FALSE, screen |-> screen,
            screenshot_attempted |-> need,
            screenshot_base64 |-> IF need THEN shot ELSE "None",
            used_vision |-> need]

\* Perception::poll_screen_adb_full(with_screenshot): the screen it stores
\* has the elements of parse_ui_elements; tree_is_empty stands in the
\* needs_vision_fallback field
PollScreenAdbFull(tree_xml, with_screenshot, shot) ==
  /\ perceived.pass = "none"
  /\ LET elements == IF tree_xml.present THEN parse_ui_elements(tree_xml.nodes) ELSE << >>
         tree_is_empty == elements = << >>
         need == with_screenshot \/ tree_is_empty
     IN  perceived' =
           [pass |-> "poll_screen_adb_full", tree_xml |-> tree_xml, vision_mode |-> "Off",
            max_elements |-> MAX_ELEMENTS, with_screenshot |-> with_screenshot,
            screen |-> SanitizedScreen(elements,
                         Cardinality({ i \in 1..Len(elements) : elements[i].clickable }),
                         tree_is_empty, Len(elements),
                         [tag |-> "None", val |-> << >>]),
            screenshot_attempted |-> need,
            screenshot_base64 |-> IF need THEN shot ELSE "None",
            used_vision |-> need]

\* --------------------------------------------------------- specifications

\* ActionExecutor::new(dry_run, adb_device, restricted_apps)
ExecutorNew(dryRun, restricted, autoConfirm) ==
  /\ dry_run = dryRun
  /\ restricted_apps = restricted
  /\ auto_confirm_red = autoConfirm
  /\ pending = << >>
  /\ outgoing = << >>
  /\ action_log = << >>
  /\ adb_calls = << >>
  /\ next_id = 1
  /\ exec_ret = NoReturn
  /\ handler = [h \in Handlers |-> Idle]
  /\ confirm_ret = [h \in Handlers |-> NoReturn]
  /\ n_execute = 0
  /\ n_confirm = 0

\* the restricted_apps list of the configuration
RestrictedConfig == << <<"p">>, <<"b", "k">> >>

\* Brain::new: no think() call yet
BrainNew ==
  /\ think_calls = << >>
  /\ think_ret = "none"
  /\ n_think = 0

\* no error text under classification
NoClassification ==
  /\ cl_text = << >>
  /\ cl_class = "unset"
  /\ cl_fallover = << >>

InitExec ==
  /\ \E d \in BOOLEAN : ExecutorNew(d, RestrictedConfig, TRUE)
  /\ FallbackNew(DefaultFallbackConfig(1))
  /\ BrainNew
  /\ NoClassification
  /\ StuckNew(DefaultStuckConfig("escalate"))
  /\ LoopNew("daemon", "adb")
  /\ NoParse
  /\ NoPerception

\* the same executor with the auto_confirm_red policy flag either way
InitExecAnyPolicy ==
  /\ \E d \in BOOLEAN, ac \in BOOLEAN : ExecutorNew(d, RestrictedConfig, ac)
  /\ FallbackNew(DefaultFallbackConfig(1))
  /\ BrainNew
  /\ NoClassification
  /\ StuckNew(DefaultStuckConfig("escalate"))
  /\ LoopNew("daemon", "adb")
  /\ NoParse
  /\ NoPerception

\* ids a confirmation call can name: the ids handed out so far and a stranger
ConfirmIds == 0..MaxExecute

NextExec ==
  \/ \E action \in AgentActions : Execute(action) /\ UNCHANGED beside_exec
  \/ \E h \in Handlers, id \in ConfirmIds, approved \in BOOLEAN :
       ConfirmLocked(h, id, approved) /\ UNCHANGED beside_exec
  \/ \E h \in Handlers : ConfirmExecute(h) /\ UNCHANGED beside_exec

SpecExec == InitExec /\ [][NextExec]_vars

SpecExecAnyPolicy == InitExecAnyPolicy /\ [][NextExec]_vars

InitFallback ==
  /\ ExecutorNew(FALSE, RestrictedConfig, TRUE)
  /\ \E config \in FallbackConfigs : FallbackNew(config)
  /\ BrainNew
  /\ NoClassification
  /\ StuckNew(DefaultStuckConfig("escalate"))
  /\ LoopNew("daemon", "adb")
  /\ NoParse
  /\ NoPerception

NextFallback ==
  \/ \E error \in ErrorTexts : ReportFailure(error) /\ UNCHANGED beside_fb
  \/ ReportSuccess /\ UNCHANGED beside_fb
  \/ CheckPrimaryRecovery /\ UNCHANGED beside_fb
  \/ Tick /\ UNCHANGED beside_fb

SpecFallback == InitFallback /\ [][NextFallback]_vars

\* ErrorClass::classify(&error_str) on an error text
Classify ==
  /\ cl_class = "unset"
  /\ cl_class' = classify(cl_text)
  /\ UNCHANGED << cl_text, cl_fallover >>

\* error_class.should_fallback(&self.config) on the class found
ShouldFallback ==
  /\ cl_class # "unset"
  /\ cl_fallover = << >>
  /\ cl_fallover' = << should_fallback(cl_class, fb_config) >>
  /\ UNCHANGED << cl_text, cl_class >>

InitClassify ==
  /\ ExecutorNew(FALSE, RestrictedConfig, TRUE)
  /\ \E config \in FallbackConfigs : FallbackNew(config)
  /\ BrainNew
  /\ cl_text \in ClassifyInputs
  /\ cl_class = "unset"
  /\ cl_fallover = << >>
  /\ StuckNew(DefaultStuckConfig("escalate"))
  /\ LoopNew("daemon", "adb")
  /\ NoParse
  /\ NoPerception

NextClassify ==
  \/ Classify /\ UNCHANGED beside_cl
  \/ ShouldFallback /\ UNCHANGED beside_cl

SpecClassify == InitClassify /\ [][NextClassify]_vars

\* Brain::think: the primary backend is called; a failure is reported to the
\* fallback manager, and the model it returns, if any, is called once
Think ==
  /\ n_think < MaxThink
  /\ n_think' = n_think + 1
  /\ \/ /\ ReportSuccess
        /\ think_calls' = << [provider |-> primary, ok |-> TRUE] >>
        /\ think_ret' = "Ok"
     \/ \E error \in ErrorTexts :
          /\ ReportFailure(error)
          /\ IF fb_ret' # "None"
               THEN \E fb_ok \in BOOLEAN :
                      /\ think_calls' = << [provider |-> primary, ok |-> FALSE],
                                          [provider |-> fb_ret', ok |-> fb_ok] >>
                      /\ think_ret' = IF fb_ok THEN "Ok" ELSE "Err"
               ELSE /\ think_calls' = << [provider |-> primary, ok |-> FALSE] >>
                    /\ think_ret' = "Err"

InitThink ==
  /\ ExecutorNew(FALSE, RestrictedConfig, TRUE)
  /\ \E config \in FallbackConfigs : FallbackNew(config)
  /\ BrainNew
  /\ NoClassification
  /\ StuckNew(DefaultStuckConfig("escalate"))
  /\ LoopNew("daemon", "adb")
  /\ NoParse
  /\ NoPerception

NextThink ==
  \/ Think /\ UNCHANGED beside_brain
  \/ Tick /\ UNCHANGED << brain_vars, beside_brain >>

SpecThink == InitThink /\ [][NextThink]_vars

InitStuck ==
  /\ ExecutorNew(FALSE, RestrictedConfig, TRUE)
  /\ FallbackNew(DefaultFallbackConfig(1))
  /\ BrainNew
  /\ NoClassification
  /\ \E config \in StuckConfigs : StuckNew(config)
  /\ LoopNew("daemon", "adb")
  /\ NoParse
  /\ NoPerception

NextStuck ==
  \/ \E screen_hash \in ScreenHashes : CheckScreen(screen_hash) /\ UNCHANGED beside_stuck
  \/ \E fingerprint \in Fingerprints : RecordAction(fingerprint) /\ UNCHANGED beside_stuck
  \/ Reset /\ UNCHANGED beside_stuck

SpecStuck == InitStuck /\ [][NextStuck]_vars

\* a detector that is only shown screens
NextScreens ==
  \E screen_hash \in ScreenHashes :
    /\ n_stuck_calls < MaxScreenChecks
    /\ CheckScreenCall(screen_hash)
    /\ UNCHANGED beside_stuck

SpecScreens == InitStuck /\ [][NextScreens]_vars

InitLoop ==
  /\ ExecutorNew(FALSE, RestrictedConfig, TRUE)
  /\ FallbackNew(DefaultFallbackConfig(1))
  /\ BrainNew
  /\ NoClassification
  /\ \E config \in StuckConfigs : StuckNew(config)
  /\ \E m \in {"oneshot", "daemon"}, bridge \in {"adb", "companion"} : LoopNew(m, bridge)
  /\ NoParse
  /\ NoPerception

NextLoop ==
  \/ \E screen_hash \in ScreenHashes : OneshotPerceive(screen_hash) /\ UNCHANGED beside_loop
  \/ \E reply \in ModelReplies : OneshotThink(reply) /\ UNCHANGED beside_loop
  \/ OneshotExecute /\ UNCHANGED beside_loop
  \/ \E busy \in BOOLEAN, screen_hash \in ScreenHashes :
       HeartbeatTick(busy, screen_hash) /\ UNCHANGED << stuck_vars, beside_loop >>
  \/ \E new_hash \in ScreenHashes :
       HeartbeatExecute(new_hash) /\ UNCHANGED << stuck_vars, beside_loop >>

SpecLoop == InitLoop /\ [][NextLoop]_vars

\* the heartbeat loop with the server's start and stop, the kill switch and
\* the bridge's pushes beside it
InitDaemon ==
  /\ ExecutorNew(FALSE, RestrictedConfig, TRUE)
  /\ FallbackNew(DefaultFallbackConfig(1))
  /\ BrainNew
  /\ NoClassification
  /\ StuckNew(DefaultStuckConfig("escalate"))
  /\ \E bridge \in {"adb", "companion"} : LoopNew("daemon", bridge)
  /\ NoParse
  /\ NoPerception

NextDaemon ==
  \/ \E busy \in BOOLEAN, screen_hash \in ScreenHashes :
       HeartbeatTick(busy, screen_hash) /\ UNCHANGED << stuck_vars, beside_loop >>
  \/ \E new_hash \in ScreenHashes :
       HeartbeatExecute(new_hash) /\ UNCHANGED << stuck_vars, beside_loop >>
  \/ ServerStart /\ UNCHANGED << stuck_vars, beside_loop >>
  \/ ServerStop /\ UNCHANGED << stuck_vars, beside_loop >>
  \/ KillSwitch /\ UNCHANGED << stuck_vars, beside_loop >>
  \/ PushNotification /\ UNCHANGED << stuck_vars, beside_loop >>
  \/ PushUserCommand /\ UNCHANGED << stuck_vars, beside_loop >>

SpecDaemon == InitDaemon /\ [][NextDaemon]_vars

\* a one-shot run with the default thresholds, called with max_steps 0, 1 or 2
MaxStepsArgs == { 0, 1, 2 }

InitOneshot ==
  /\ ExecutorNew(FALSE, RestrictedConfig, TRUE)
  /\ FallbackNew(DefaultFallbackConfig(1))
  /\ BrainNew
  /\ NoClassification
  /\ StuckNew(DefaultStuckConfig("escalate"))
  /\ \E arg \in MaxStepsArgs : RunNew("oneshot", "adb", arg)
  /\ NoParse
  /\ NoPerception

\* a failed model call, a response that taps, one that taps and is done
OneshotReplies ==
  { reply \in ModelReplies :
      \/ reply.tag = "None"
      \/ /\ reply.val.reflection = << >>
         /\ reply.val.actions \in
              { << [action_type |-> "tap", target |-> "1,1"] >>,
                << [action_type |-> "tap", target |-> "1,1"],
                   [action_type |-> "done", target |-> "done"] >> } }

NextOneshot ==
  \/ \E screen_hash \in {1, 2} : OneshotPerceive(screen_hash) /\ UNCHANGED beside_loop
  \/ \E reply \in OneshotReplies : OneshotThink(reply) /\ UNCHANGED beside_loop
  \/ OneshotExecute /\ UNCHANGED beside_loop

\* the run goes on as long as it has a next statement
SpecOneshot == InitOneshot /\ [][NextOneshot]_vars /\ WF_vars(NextOneshot)

InitParse ==
  /\ ExecutorNew(FALSE, RestrictedConfig, TRUE)
  /\ FallbackNew(DefaultFallbackConfig(1))
  /\ BrainNew
  /\ NoClassification
  /\ StuckNew(DefaultStuckConfig("escalate"))
  /\ LoopNew("daemon", "adb")
  /\ raw \in RawTexts
  /\ parsed = [tag |-> "none"]
  /\ NoPerception

NextParse == ParseResponse /\ UNCHANGED beside_parse

SpecParse == InitParse /\ [][NextParse]_vars

\* the values max_elements is configured to: 0 stands for the default
MaxElementsValues == { 0, 2 }

InitPerceive ==
  /\ ExecutorNew(FALSE, RestrictedConfig, TRUE)
  /\ FallbackNew(DefaultFallbackConfig(1))
  /\ BrainNew
  /\ NoClassification
  /\ StuckNew(DefaultStuckConfig("escalate"))
  /\ LoopNew("daemon", "adb")
  /\ NoParse
  /\ NoPerception

\* one pass per behaviour: no input is drawn once it is made
NextPerceive ==
  \/ /\ perceived.pass = "none"
     /\ \E tree_xml \in Dumps, vision_mode \in VisionModes,
           max_elements \in MaxElementsValues, shot \in {"Some", "None"} :
          PerceiveScreen(tree_xml, vision_mode, max_elements, shot)
     /\ UNCHANGED << raw, parsed, beside_parse >>
  \/ /\ perceived.pass = "none"
     /\ \E tree_xml \in Dumps, with_screenshot \in BOOLEAN, shot \in {"Some", "None"} :
          PollScreenAdbFull(tree_xml, with_screenshot, shot)
     /\ UNCHANGED << raw, parsed, beside_parse >>

SpecPerceive == InitPerceive /\ [][NextPerceive]_vars

\* ------------------------------------------------- claims: the executor

IsQueued(id) == \E i \in 1..Len(pending) : pending[i].action_id = id

AdbCallsFor(id) == { i \in 1..Len(adb_calls) : adb_calls[i][1] = id }

KnownClasses == { GREEN, YELLOW, RED }

\* C1: an execute() of an action whose params.package contains a restricted-app
\* entry never reaches adb: it appends a PendingConfirmation (confirmed unset)
\* for the action and returns the PENDING token, whatever classification was
\* declared and whatever dry_run and auto_confirm_red are.
C1_RestrictedAlwaysQueued ==
  [][n_execute' # n_execute => \A a \in AgentActions :
       (targets_restricted(a) /\ Execute(a)) =>
         /\ adb_calls' = adb_calls
         /\ outgoing' = outgoing
         /\ pending' = Append(pending, [action_id |-> next_id, action |-> a, confirmed |-> "None"])
         /\ exec_ret' = PendingToken(next_id)]_vars

\* a restricted-app action declared GREEN sits in the pending list, with
\* auto-confirm on, and the device untouched
C1_Witness ==
  /\ auto_confirm_red
  /\ adb_calls = << >>
  /\ \E i \in 1..Len(pending) :
       /\ targets_restricted(pending[i].action)
       /\ to_uppercase(pending[i].action.classification) = GREEN
       /\ pending[i].action.action_type \in AdbTypes
       /\ exec_ret = PendingToken(pending[i].action_id)

\* C2: the device is reached at most once for each queued action, over every
\* interleaving of confirm() calls on its id.
C2_ExecutedAtMostOnce ==
  \A id \in 1..(next_id - 1) : IsQueued(id) => Cardinality(AdbCallsFor(id)) <= 1

\* C3: in dry-run mode adb is never reached and every log entry is a
\* simulated execution.
C3_DryRunNeverTouchesDevice ==
  dry_run =>
    /\ adb_calls = << >>
    /\ \A i \in 1..Len(action_log) : action_log[i].result = "DRY_RUN"

\* C4: an execute() of an action whose upper-cased classification is none of
\* GREEN, YELLOW, RED, and that targets no restricted app, returns BLOCKED and
\* leaves adb, the pending list and the outgoing queue alone.
C4_UnknownClassBlocked ==
  [][n_execute' # n_execute => \A a \in AgentActions :
       (/\ ~targets_restricted(a)
        /\ to_uppercase(a.classification) \notin KnownClasses
        /\ Execute(a)) =>
         /\ exec_ret' = Ok("BLOCKED")
         /\ UNCHANGED << adb_calls, pending, outgoing >>]_vars

\* execute() has returned BLOCKED
C4_Witness ==
  /\ n_execute > 0
  /\ exec_ret = Ok("BLOCKED")
  /\ adb_calls = << >> /\ pending = << >> /\ outgoing = << >>

\* C5: once an entry's confirmed field is set, no later step changes it, and
\* no confirm() goes on to execute an entry that stands denied.
C5_DecisionRecordedOnce ==
  [][\A i \in 1..Len(pending) :
       /\ pending[i].confirmed # "None" => pending'[i].confirmed = pending[i].confirmed
       /\ pending[i].confirmed = "false" =>
            \A h \in Handlers :
              (handler[h].pc = "idle" /\ handler'[h].pc = "do_action")
                => handler'[h].id # pending[i].action_id]_vars

\* C6: confirm(id, false) on an existing entry returns DENIED without going
\* on to do_action and without reaching adb.
C6_DeniedNeverExecutes ==
  [][n_confirm' # n_confirm => \A h \in Handlers, id \in ConfirmIds :
       (ConfirmLocked(h, id, FALSE) /\ IsQueued(id)) =>
         /\ adb_calls' = adb_calls
         /\ handler'[h].pc = "idle"
         /\ confirm_ret'[h] = Ok("DENIED")]_vars

\* a confirm(id, false) has returned DENIED for a queued adb action
C6_Witness ==
  \E h \in Handlers, i \in 1..Len(pending) :
    /\ confirm_ret[h] = Ok("DENIED")
    /\ pending[i].confirmed = "false"
    /\ pending[i].action.action_type \in AdbTypes

\* C7: confirm() with an id that matches no pending entry returns an error
\* and changes neither the pending list, the action log, the outgoing queue
\* nor the device.
C7_UnknownIdNoSideEffects ==
  [][n_confirm' # n_confirm => \A h \in Handlers, id \in ConfirmIds, approved \in BOOLEAN :
       (ConfirmLocked(h, id, approved) /\ ~IsQueued(id)) =>
         /\ confirm_ret'[h].ok = FALSE
         /\ handler'[h].pc = "idle"
         /\ UNCHANGED << pending, action_log, outgoing, adb_calls >>]_vars

\* a confirm() has failed while another id was pending
C7_Witness ==
  /\ pending # << >>
  /\ \E h \in Handlers : confirm_ret[h] = Err("No pending action")
  /\ \A i \in 1..Len(pending) : pending[i].confirmed = "None"

\* C8: every execution attempt (an execute() call, a denial, the execution of
\* an approved confirmation) appends exactly one entry to the action log.
C8_EveryAttemptLogged ==
  [][(\/ \E a \in AgentActions : Execute(a)
      \/ \E h \in Handlers, id \in ConfirmIds : ConfirmLocked(h, id, FALSE) /\ IsQueued(id)
      \/ \E h \in Handlers : ConfirmExecute(h))
       => Len(action_log') = Len(action_log) + 1]_vars

Eligible(error) == should_fallback(classify(error), fb_config)

Cooling(key) ==
  /\ cooled_at[key] # -1
  /\ clock - cooled_at[key] < fb_config.fallback_cooldown_secs

\* C9: a step that makes a provider the active one never picks a provider
\* whose latest cooldown, started at cooled_at, has not yet run for
\* fallback_cooldown_secs.
C9_NeverActiveDuringCooldown ==
  [][active_model' # active_model =>
       \/ cooled_at'[active_model'] = -1
       \/ clock' - cooled_at'[active_model'] >= fb_config'.fallback_cooldown_secs]_vars

\* C10: with the 2-provider fallback chain, a fallover-eligible failure of the
\* fresh primary activates fallback #1; one of fallback #1, with fallback #2
\* never failed, activates fallback #2; and one reported on fallback #2 when
\* the primary and fallback #1 are both in the cooldown list and the primary's
\* cooldown has elapsed wraps back to the primary.
C10_ChainWalk ==
  [][n_failures' # n_failures => \A error \in ErrorTexts :
       (ReportFailure(error) /\ Eligible(error)) =>
         /\ (current_index = -1 /\ cooldowns = << >>) =>
              (current_index' = 0 /\ fb_ret' = fallbacks[1])
         /\ (current_index = 0 /\ cooled_at[fallbacks[2]] = -1) =>
              (current_index' = 1 /\ fb_ret' = fallbacks[2])
         /\ (/\ current_index = 1
             /\ cooled_at[primary] # -1
             /\ cooled_at[fallbacks[1]] # -1
             /\ ~Cooling(primary)) =>
              (current_index' = -1 /\ fb_ret' = primary)]_vars

\* the walk of the claim has happened: three failures, the third one after
\* the cooldown, and the primary is active again
C10_Witness ==
  /\ fb_config.fallback_cooldown_secs >= 1
  /\ Len(cooldowns) = 3
  /\ cooldowns[1] = [key |-> primary, when |-> 0]
  /\ cooldowns[2] = [key |-> fallbacks[1], when |-> 0]
  /\ cooldowns[3].key = fallbacks[2]
  /\ cooldowns[3].when >= fb_config.fallback_cooldown_secs
  /\ current_index = -1
  /\ fb_ret = primary

\* the classes the policy table never sends on, and the configurable ones
\* whose flag is off
NotEligibleClass(error_class) ==
  \/ error_class \in {"ClientError", "Unknown"}
  \/ error_class = "RateLimit" /\ ~fb_config.fallback_on_rate_limit
  \/ error_class = "AuthError" /\ ~fb_config.fallback_on_auth_error
  \/ error_class = "Timeout" /\ ~fb_config.fallback_on_timeout

\* C13: report_failure with an error of a class that is not eligible for
\* fallover returns none and leaves the active provider, the cooldown list and
\* the fallback count as they were.
C13_IneligibleFailureNoChange ==
  [][n_failures' # n_failures => \A error \in ErrorTexts :
       (NotEligibleClass(classify(error)) /\ ReportFailure(error)) =>
         /\ fb_ret' = "None"
         /\ current_index' = current_index
         /\ cooldowns' = cooldowns
         /\ total_fallbacks' = total_fallbacks]_vars

\* a failure was reported with the rate-limit flag off and nothing moved
C13_Witness ==
  /\ n_failures = 1
  /\ ~fb_config.fallback_on_rate_limit
  /\ fb_ret = "None"
  /\ cooldowns = << >>
  /\ current_index = -1
  /\ total_fallbacks = 0

\* the pattern lists classify tries before the client-error list
BeforeClientPatterns ==
  RateLimitPatterns \cup AuthPatterns \cup TimeoutPatterns \cup ServerErrorPatterns

\* C14 as stated: whatever else the text holds, "429" or "rate limit" in it
\* gives RateLimit, "400" or "model not found" in it gives ClientError, and
\* ClientError is never sent on to a fallback.
C14_ContainsDecidesClass ==
  cl_class # "unset" =>
    LET lower == to_lowercase(cl_text)
    IN  /\ (contains(lower, <<"4", "2", "9">>) \/ contains(lower, <<"r", "a", "t", "e", " ", "l", "i", "m", "i", "t">>))
              => cl_class = "RateLimit"
        /\ (contains(lower, <<"4", "0", "0">>) \/ contains(lower, <<"m", "o", "d", "e", "l", " ", "n", "o", "t", " ", "f", "o", "u", "n", "d">>))
              => cl_class = "ClientError"
        /\ (cl_class = "ClientError" /\ cl_fallover # << >>) => cl_fallover = << FALSE >>

\* C14, amended: "429" or "rate limit" in the text gives RateLimit; "400" or
\* "model not found" gives ClientError when the text matches no rate-limit,
\* auth, timeout or server-error pattern, which classify tries first; and
\* ClientError is never sent on to a fallback, whatever the configuration.
C14_ClassifyByPrecedence ==
  cl_class # "unset" =>
    LET lower == to_lowercase(cl_text)
    IN  /\ (contains(lower, <<"4", "2", "9">>) \/ contains(lower, <<"r", "a", "t", "e", " ", "l", "i", "m", "i", "t">>))
              => cl_class = "RateLimit"
        /\ (/\ contains(lower, <<"4", "0", "0">>) \/ contains(lower, <<"m", "o", "d", "e", "l", " ", "n", "o", "t", " ", "f", "o", "u", "n", "d">>)
            /\ ~matches_any(lower, BeforeClientPatterns))
              => cl_class = "ClientError"
        /\ (cl_class = "ClientError" /\ cl_fallover # << >>) => cl_fallover = << FALSE >>

\* a text of two fragments, "model not found" among them, came out as
\* ClientError and was refused a fallback although every flag is on
C14_Witness ==
  /\ contains(to_lowercase(cl_text), <<"m", "o", "d", "e", "l", " ", "n", "o", "t", " ", "f", "o", "u", "n", "d">>)
  /\ Len(cl_text) > Len(<<"m", "o", "d", "e", "l", " ", "n", "o", "t", " ", "f", "o", "u", "n", "d">>)
  /\ cl_class = "ClientError"
  /\ cl_fallover = << FALSE >>
  /\ fb_config.fallback_on_rate_limit
  /\ fb_config.fallback_on_auth_error
  /\ fb_config.fallback_on_timeout

\* the fallbacks (0-based) positioned after the current one whose latest
\* cooldown, the one of this report included, has run out or never began
ReadyAfterCurrent ==
  LET start == IF current_index < 0 THEN 0 ELSE current_index + 1
  IN  { i \in start..(Len(fallbacks) - 1) :
          \/ cooled_at'[fallbacks[i + 1]] = -1
          \/ clock' - cooled_at'[fallbacks[i + 1]] >= fb_config.fallback_cooldown_secs }

\* C34: report_failure with a fallover-eligible error activates the first
\* fallback positioned after the current one that is not on cooldown; with
\* none such it wraps to the primary when the primary's cooldown has elapsed
\* and a fallback is the current provider; otherwise it returns none and the
\* active provider is the one it was.
C34_AdvanceToNext ==
  [][n_failures' # n_failures => \A error \in ErrorTexts :
       (ReportFailure(error) /\ Eligible(error)) =>
         IF ReadyAfterCurrent # {}
           THEN /\ current_index' = Min(ReadyAfterCurrent)
                /\ fb_ret' = fallbacks[Min(ReadyAfterCurrent) + 1]
           ELSE IF /\ current_index >= 0
                   /\ clock' - cooled_at'[primary] >= fb_config.fallback_cooldown_secs
             THEN current_index' = -1 /\ fb_ret' = primary
             ELSE fb_ret' = "None" /\ current_index' = current_index]_vars

\* ------------------------------------------------- claims: Brain::think

\* C11: the first provider a think() call sends its request to is the one
\* the fallback manager had active when the call began.
C11_ThinkCallsActiveProvider ==
  [][n_think' # n_think => think_calls'[1].provider = active_model]_vars

\* C12: every failed provider call of a think() is reported to the fallback
\* manager, and think() returns an error only when the last report_failure
\* returned none.
C12_EveryFailureReported ==
  [][n_think' # n_think =>
       /\ Cardinality({ i \in 1..Len(think_calls') : ~think_calls'[i].ok })
            = n_failures' - n_failures
       /\ think_ret' = "Err" => fb_ret' = "None"]_vars

\* ------------------------------------------- claims: the stuck detector

\* the step is a check_screen or record_action call on the detector
StuckCallStep(op) == n_stuck_calls' # n_stuck_calls /\ stuck_call'.op = op

\* C15: with screen_threshold 3 and a detector fresh from new() or reset(),
\* check_screen calls with one and the same hash return Ok, Ok and then a
\* status other than Ok on the 3rd call; a 4th call with another hash puts
\* screen_same_count back to 0 and returns Ok.  Stated for the runs whose
\* hash is not 0, the value new() and reset() store in last_screen_hash.
C15_ThirdSameScreenIsStuck ==
  [][(/\ StuckCallStep("check_screen")
      /\ stuck.config.screen_threshold = 3
      /\ fresh_run.n = 0 => stuck_call'.hash # 0
      /\ fresh_run.n > 0 => fresh_run.hash # 0) =>
       LET same == fresh_run.n = 0 \/ stuck_call'.hash = fresh_run.hash
       IN  /\ (fresh_run.n \in {0, 1} /\ same) => stuck_ret' = "Ok"
           /\ (fresh_run.n = 2 /\ same) => stuck_ret' # "Ok"
           /\ (fresh_run.n = 3 /\ ~same) =>
                (stuck_ret' = "Ok" /\ stuck'.screen_same_count = 0)]_vars

\* C16: with repetition_window 6 and repetition_threshold 3, the
\* record_action call that makes a fingerprint occur 3 times among the last 6
\* record_action calls returns a status other than Ok, whatever else was
\* recorded in between and whatever the detector went through before.
C16_ThirdRepetitionIsStuck ==
  [][(/\ StuckCallStep("record_action")
      /\ stuck.config.repetition_window = 6
      /\ stuck.config.repetition_threshold = 3
      /\ count_same(rec_log', stuck_call'.fingerprint) = 3)
       => stuck_ret' # "Ok"]_vars

\* C17: once more than max_recovery_attempts calls of check_screen and
\* record_action together have detected a stuck state since new() or reset(),
\* every later call that detects one returns GiveUp.
C17_GiveUpAfterCeiling ==
  [][(/\ n_stuck_calls' # n_stuck_calls
      /\ stuck_call'.op \in {"check_screen", "record_action"}
      /\ detections > stuck.config.max_recovery_attempts
      /\ stuck_ret' # "Ok")
       => stuck_ret' = "GiveUp"]_vars

\* two detections past the ceiling, the last one giving up again, on a
\* detector holding both an unchanged screen and recorded actions
C17_Witness ==
  /\ detections >= stuck.config.max_recovery_attempts + 2
  /\ stuck_ret = "GiveUp"
  /\ stuck.screen_same_count >= stuck.config.screen_threshold
  /\ stuck.recent_actions # << >>

\* C18: a check_screen or record_action call raises escalation_level only
\* when it detects a stuck state, and then by 1; it lowers it only when it is
\* a check_screen whose hash differs from the one observed before, and then
\* by 1 and not below 0; any other call leaves it as it was.
C18_EscalationLevelMoves ==
  [][(/\ n_stuck_calls' # n_stuck_calls
      /\ stuck_call'.op \in {"check_screen", "record_action"}) =>
       /\ stuck'.escalation_level >= 0
       /\ stuck'.escalation_level > stuck.escalation_level =>
            /\ stuck'.escalation_level = stuck.escalation_level + 1
            /\ stuck_ret' # "Ok"
       /\ stuck'.escalation_level < stuck.escalation_level =>
            /\ stuck'.escalation_level = stuck.escalation_level - 1
            /\ stuck_call'.op = "check_screen"
            /\ observed = << >> \/ observed[1] # stuck_call'.hash]_vars

\* C27: a call that returns Hint resets nothing: the same-screen counter, the
\* navigation counter and the action window keep what the call itself counted
\* and pushed; a call that returns Recover(Back) or Recover(HomeAndRelaunch),
\* under whatever recovery strategy, leaves the same-screen counter and the
\* navigation counter at zero.
C27_HintKeepsRecoverResets ==
  [][(/\ n_stuck_calls' # n_stuck_calls
      /\ stuck_call'.op \in {"check_screen", "record_action"}) =>
       /\ stuck_ret' = "Hint" =>
            /\ stuck'.screen_same_count >= stuck.screen_same_count
            /\ stuck'.consecutive_nav_actions >= stuck.consecutive_nav_actions
            /\ stuck'.recent_actions =
                 IF stuck_call'.op = "record_action"
                   THEN push_window(stuck.recent_actions, stuck_call'.fingerprint,
                                    stuck.config.repetition_window)
                   ELSE stuck.recent_actions
       /\ stuck_ret' \in {"Recover(Back)", "Recover(HomeAndRelaunch)"} =>
            /\ stuck'.screen_same_count = 0
            /\ stuck'.consecutive_nav_actions = 0]_vars

\* C28: under the escalate strategy with max_recovery_attempts 3, the 1st,
\* 2nd, 3rd and 4th stuck detection since new() or reset(), with no
\* check_screen observing a new hash after the 1st, return Hint,
\* Recover(Back), Recover(HomeAndRelaunch) and GiveUp.
C28_EscalationOrder ==
  [][(/\ n_stuck_calls' # n_stuck_calls
      /\ stuck_call'.op \in {"check_screen", "record_action"}
      /\ stuck.config.recovery_strategy = "escalate"
      /\ stuck.config.max_recovery_attempts = 3
      /\ calm /\ calm'
      /\ detections < 4
      /\ stuck_ret' # "Ok") =>
       stuck_ret' = << "Hint", "Recover(Back)", "Recover(HomeAndRelaunch)",
                       "GiveUp" >>[detections + 1]]_vars

\* C29: after a record_action call with an action type that is not
\* navigational the consecutive-navigation counter is zero, whatever the call
\* returned; and a record_action call that brings the counter to the drift
\* threshold does not return Ok.
C29_NonNavResetsDrift ==
  [][StuckCallStep("record_action") =>
       /\ ~is_nav(stuck_call'.fingerprint.action_type) =>
            stuck'.consecutive_nav_actions = 0
       /\ (/\ stuck'.consecutive_nav_actions # stuck.consecutive_nav_actions
           /\ stuck'.consecutive_nav_actions >= stuck.config.drift_threshold) =>
            stuck_ret' # "Ok"]_vars

\* C30: with drift_threshold 5, on a detector fresh from new() or reset()
\* whose only calls are record_action calls with navigational types, each of
\* the first four returns Ok and the fifth does not.
C30_FifthNavIsDrift ==
  [][(/\ StuckCallStep("record_action")
      /\ stuck.config.drift_threshold = 5
      /\ stuck.config.repetition_window >= 5
      /\ observed = << >>
      /\ Len(rec_log') = Len(rec_log) + 1
      /\ \A i \in 1..Len(rec_log') : is_nav(rec_log'[i].action_type)) =>
       /\ Len(rec_log') <= 4 => stuck_ret' = "Ok"
       /\ Len(rec_log') = 5 => stuck_ret' # "Ok"]_vars

\* the navigational actions the log ends in
TrailingNav(log) ==
  Cardinality({ i \in 1..Len(log) :
                  \A j \in i..Len(log) : is_nav(log[j].action_type) })

\* C31: a record_action call returns Ok when, with its action pushed, no
\* fingerprint occurs repetition_threshold times or more among the last
\* repetition_window actions recorded, and the actions recorded end in fewer
\* than drift_threshold navigational ones.
C31_NoFalseStuck ==
  [][(/\ StuckCallStep("record_action")
      /\ \A i \in 1..Len(rec_log') :
           count_same(rec_log', rec_log'[i]) < stuck.config.repetition_threshold
      /\ TrailingNav(rec_log') < stuck.config.drift_threshold)
       => stuck_ret' = "Ok"]_vars

C33_HashValueIrrelevant ==
  [][StuckCallStep("check_screen") =>
       /\ fresh_run'.n = stuck.config.screen_threshold + 1 => stuck_ret' # "Ok"
       /\ (/\ stuck_call.op = "check_screen"
           /\ stuck_call.hash = 0
           /\ stuck_call'.hash = 0) =>
            stuck'.escalation_level >= stuck.escalation_level]_vars

\* ------------------------------------------------------ claims: the loops

\* the one-shot run's detector has returned GiveUp: only a detection past
\* the ceiling does, and nothing in the run lowers recovery_attempts
HasGivenUp ==
  mode = "oneshot" /\ stuck.recovery_attempts > stuck.config.max_recovery_attempts

\* C19: in a one-shot run, once check_screen or record_action has returned
\* GiveUp, no further brain.think() call is made and no further action is
\* handed to the executor.
C19_GiveUpEndsRun ==
  [][HasGivenUp => (n_model_calls' = n_model_calls /\ dispatched' = dispatched)]_vars

\* the entries of the response the loop hands on: all of them in the
\* heartbeat tick, all but the 'done' ones in a one-shot step
Runnable ==
  SelectSeq([i \in 1..Len(response) |-> i],
            LAMBDA i : mode = "daemon" \/ response[i].action_type # "done")

\* C20: the actions of a response handed to the executor are, in order, a
\* prefix of the response's list (without its 'done' entries in a one-shot
\* step); once one of them has failed no later one of that response is
\* handed over; and the step in which one fails leaves the loop running,
\* at its next tick or step.
C20_BatchIsPrefixUntilFailure ==
  [][/\ Len(dispatched') <= Len(Runnable')
     /\ dispatched' = SubSeq(Runnable', 1, Len(dispatched'))
     /\ (batch_failed /\ response' = response /\ n_model_calls' = n_model_calls)
          => dispatched' = dispatched
     /\ (batch_failed' /\ ~batch_failed) =>
          /\ mode = "daemon" => pc' = "tick"
          /\ (mode = "oneshot" /\ step < max_steps) =>
               (pc' = "perceive" /\ step' = step + 1)]_vars

\* a heartbeat tick whose second action of three failed: two were handed
\* over, the third was not, and the loop is back at its tick
C20_Witness ==
  /\ mode = "daemon"
  /\ batch_failed
  /\ Len(response) = 3
  /\ dispatched = << 1, 2 >>
  /\ pc = "tick"

\* C35: in a one-shot run, the prompt of a brain.think() call carries every
\* hint the detector has returned, from check_screen or from record_action,
\* since the prompt before it.
C35_HintsReachNextPrompt ==
  [][(mode = "oneshot" /\ n_model_calls' # n_model_calls) =>
       \A hint \in hints_due :
         \E i \in 1..Len(final_user_prompt') : final_user_prompt'[i] = hint]_vars

\* the iterations a run called with max_steps_arg may take
StepLimit == IF max_steps_arg = 0 THEN 30 ELSE max_steps_arg

\* the iteration ends and the next one, if the limit leaves one, begins
IterationSpent ==
  IF step < StepLimit THEN step' = step + 1 /\ pc' = "perceive"
                      ELSE step' = step /\ pc' = "finished"

\* C36: run_oneshot terminates. Every perceive/think iteration has a step
\* number of its own, none above max_steps (30 when it is called with 0); an
\* iteration that ends in a stuck recovery or in a failed model call spends
\* its step number; a done response and a GiveUp from check_screen end the
\* run at once; and a finished run does nothing more.
C36_OneshotTerminates ==
  /\ <>(pc = "finished")
  /\ [][/\ pc # "finished"
        /\ step' <= StepLimit
        /\ pc' = "perceive" => step' = step + 1
        /\ n_model_calls' <= step'
        /\ (/\ StuckCallStep("check_screen")
            /\ stuck_ret' \in {"Recover(Back)", "Recover(HomeAndRelaunch)"})
             => IterationSpent
        /\ OneshotThink([tag |-> "None", val |-> << >>]) => IterationSpent
        /\ (StuckCallStep("check_screen") /\ stuck_ret' = "GiveUp")
             => pc' = "finished"
        /\ \A reply \in ModelReplies :
             (reply.tag = "Some" /\ is_done(reply.val) /\ OneshotThink(reply))
               => pc' = "finished"]_vars

\* a run called with max_steps 0 has ended after its 30th iteration, with
\* fewer than 30 model calls: the other iterations went into stuck recovery
C36_Witness ==
  /\ max_steps_arg = 0
  /\ pc = "finished"
  /\ step = 30
  /\ n_model_calls \in 1..29
  /\ stuck_ret # "GiveUp"
  /\ ~\E i \in 1..Len(response) : response[i].action_type = "done"

\* the next turn of a tick's action loop
TickGoesOn ==
  \E new_hash \in ScreenHashes :
    HeartbeatExecute(new_hash) /\ UNCHANGED << stuck_vars, beside_loop >>

\* the loop's next tick
TickStarts ==
  \E busy \in BOOLEAN, screen_hash \in ScreenHashes :
    HeartbeatTick(busy, screen_hash) /\ UNCHANGED << stuck_vars, beside_loop >>

\* C37: the heartbeat loop starts a tick only when it finds the running flag
\* true, so none while the flag is false; a change of the flag leaves a tick
\* in flight as it is, and the tick can take its next turn whatever the flag
\* says; and with the flag true again the loop can start its next tick.
C37_NoTickWhileStopped ==
  [][/\ (mode = "daemon" /\ step' # step) => running
     /\ running' # running => UNCHANGED loop_at_rest
     /\ (mode = "daemon" /\ pc = "execute") => ENABLED TickGoesOn
     /\ (mode = "daemon" /\ pc = "tick" /\ step < MaxSteps) =>
          (running <=> ENABLED TickStarts)]_vars

\* a tick is in flight with the flag false: two of its three actions are
\* handed over and the third is to come
C37_Witness ==
  /\ mode = "daemon"
  /\ ~running
  /\ pc = "execute"
  /\ step = 1
  /\ Len(response) = 3
  /\ dispatched = << 1, 2 >>

\* C38: no user command or notification is lost to a failed model call: each
\* one pushed either has been in the prompt of a model call that succeeded
\* or still waits in its queue, from which a later tick's prompt takes it.
C38_DrainedItemsSurviveFailure ==
  \A id \in 1..n_pushed :
    \/ id \in delivered
    \/ id \in Range(notifications)
    \/ id \in Range(user_commands)

\* ------------------------------------------- claims: parse_response

\* C21: parse_response returns a response for every raw text and never
\* panics; a response of the last resort has no actions and, as reflection,
\* the first chars of the trimmed text, at most 500 of them.
C21_ParseResponseTotal ==
  parsed.tag # "none" =>
    /\ parsed.tag = "Returned"
    /\ parsed.stage = "last_resort" =>
         /\ parsed.resp.actions = << >>
         /\ parsed.resp.reflection.tag = "Some"
         /\ Len(parsed.resp.reflection.val) <= REFLECTION_CHARS
         /\ starts_with(trim(raw), parsed.resp.reflection.val)

\* C22: for a raw text that is a JSON object without its last closing brace,
\* repair_truncated_json gives a well-formed JSON text, and parse_response
\* returns the actions of the object.
C22_RepairRecoversActions ==
  \A reply \in Replies :
    (/\ is_json(reply)
     /\ raw = SubSeq(reply, 1, Len(reply) - 1)
     /\ parsed.tag # "none") =>
      /\ is_json(repair_truncated_json(sanitize_llm_json(trim(raw))))
      /\ parsed.tag = "Returned"
      /\ json_actions(reply).tag = "Some" => parsed.resp.actions = json_actions(reply).val

\* the elements of the actions array of the JSON text s, each as
\* serde_json reads it as an AgentAction
ActionObjects(s) ==
  LET listed(member) ==
        IF member.tag = "Some" /\ member.val # << >> /\ member.val[1] = "["
          THEN json_elements(member.val) ELSE << >>
      typed(items) == [i \in 1..Len(items) |-> from_str_AgentAction(items[i])] \o << >>
  IN  typed(listed(json_get(s, << "a", "c", "t", "i", "o", "n", "s" >>)))

\* C39: for a raw text that is well-formed JSON whose actions array holds a
\* well-formed action object and a defective one, parse_response returns the
\* well-formed actions, in their order, and not an empty list.
C39_WellFormedActionsKept ==
  (parsed.tag # "none" /\ is_json(raw)) =>
    LET objects == ActionObjects(raw)
        good == SelectSeq(objects, LAMBDA action : action.tag = "Some")
    IN  (good # << >> /\ Len(good) < Len(objects)) =>
          /\ parsed.tag = "Returned"
          /\ parsed.resp.actions = [i \in 1..Len(good) |-> good[i].val]

\* ------------------------------------------ claims: the perception pass

\* a tag with bounds that parse, an area above zero, and text or clickable
Qualifying(tag) ==
  /\ tag.closed /\ tag.bounds # << >>
  /\ tag.bounds[3] > tag.bounds[1] /\ tag.bounds[4] > tag.bounds[2]
  /\ (tag.text_len > 0 \/ tag.clickable)

\* C23: after perceive_screen on a dump with N qualifying tags, the screen
\* has min(N, max_elements) elements (50 for max_elements 0), element i has
\* index i, and the elements stand in the order of (center.y, center.x).
C23_ReadingOrder ==
  (perceived.pass = "perceive_screen" /\ perceived.tree_xml.present) =>
    LET nodes == perceived.tree_xml.nodes
        n == Cardinality({ i \in 1..Len(nodes) : Qualifying(nodes[i]) })
        max == IF perceived.max_elements = 0 THEN 50 ELSE perceived.max_elements
        es == perceived.screen.elements
    IN  /\ Len(es) = IF n < max THEN n ELSE max
        /\ \A i \in 1..Len(es) : es[i].index = i
        /\ \A i, j \in 1..Len(es) :
             i < j => \/ es[i].center[2] < es[j].center[2]
                      \/ /\ es[i].center[2] = es[j].center[2]
                         /\ es[i].center[1] <= es[j].center[1]

\* C24: after perceive_screen on a dump without a qualifying clickable tag,
\* and so on every missing dump, every dump without tags and every pass that
\* returns no elements, needs_vision_fallback is TRUE.
C24_SparseDumpNeedsVision ==
  perceived.pass = "perceive_screen" =>
    LET nodes == perceived.tree_xml.nodes
    IN  (\/ ~perceived.tree_xml.present
         \/ perceived.screen.elements = << >>
         \/ \A i \in 1..Len(nodes) : ~(Qualifying(nodes[i]) /\ nodes[i].clickable))
          => perceived.screen.needs_vision_fallback

\* C25 as stated: in every pass a screenshot is attempted exactly when
\* vision was requested (vision mode Always, with_screenshot) or
\* needs_vision_fallback is TRUE.
C25_ScreenshotIffRequestedOrFallback ==
  perceived.pass # "none" =>
    (perceived.screenshot_attempted <=>
      \/ perceived.vision_mode = "Always"
      \/ perceived.with_screenshot
      \/ perceived.screen.needs_vision_fallback)

\* C25: perceive_screen attempts a screenshot exactly when the vision mode
\* is Always, or is Fallback and needs_vision_fallback is TRUE, and never
\* under Off; poll_screen_adb_full attempts one exactly when with_screenshot
\* is set or the tree gave no elements.  A pass that attempts none returns
\* none.
C25_ScreenshotPolicy ==
  /\ perceived.pass = "perceive_screen" =>
       /\ perceived.screenshot_attempted <=>
            \/ perceived.vision_mode = "Always"
            \/ (perceived.vision_mode = "Fallback" /\ perceived.screen.needs_vision_fallback)
       /\ perceived.used_vision = perceived.screenshot_attempted
  /\ perceived.pass = "poll_screen_adb_full" =>
       (perceived.screenshot_attempted <=>
         (perceived.with_screenshot \/ perceived.screen.elements = << >>))
  /\ (perceived.pass # "none" /\ ~perceived.screenshot_attempted) =>
       perceived.screenshot_base64 = "None"

\* a Fallback pass over a dump with too few interactive elements has taken
\* its screenshot
C25_Witness ==
  /\ perceived.pass = "perceive_screen"
  /\ perceived.vision_mode = "Fallback"
  /\ perceived.tree_xml.present /\ perceived.screen.elements # << >>
  /\ perceived.screen.needs_vision_fallback
  /\ perceived.screenshot_attempted
  /\ perceived.screenshot_base64 = "Some"

\* the tags of a package among the tags of a dump
TagsOf(nodes, pkg) == Cardinality({ i \in 1..Len(nodes) : nodes[i].package = pkg })

\* C40: for a dump with every tag whole whose qualifying tags include a
\* clickable one, parse_accessibility_xml reports as raw_count the number of
\* qualifying tags, as foreground package a package that no other package of
\* the dump's tags outnumbers, and needs_vision_fallback = false.
C40_SampleDumpReport ==
  (/\ perceived.pass = "perceive_screen"
   /\ perceived.tree_xml.present
   /\ \A i \in 1..Len(perceived.tree_xml.nodes) : perceived.tree_xml.nodes[i].closed
   /\ \E i \in 1..Len(perceived.tree_xml.nodes) :
        Qualifying(perceived.tree_xml.nodes[i]) /\ perceived.tree_xml.nodes[i].clickable) =>
    LET nodes == perceived.tree_xml.nodes
    IN  /\ perceived.screen.raw_count =
             Cardinality({ i \in 1..Len(nodes) : Qualifying(nodes[i]) })
        /\ perceived.screen.foreground_package.tag = "Some"
        /\ \A pkg \in Packages :
             TagsOf(nodes, pkg) <= TagsOf(nodes, perceived.screen.foreground_package.val)
        /\ ~perceived.screen.needs_vision_fallback

====
